---- MODULE Spec2Model ----
(***************************************************************************)
(* EveryWherePadel tournament registration (ahmedamr80/EWPUAE_by_V0).      *)
(*                                                                         *)
(* The model has seven parts, each with its own specification:             *)
(*   - the registrations / teams / notifications collections of one event  *)
(*     and the client handlers that write them (Spec, SpecRegister);       *)
(*   - the auth context, the admin guards and the login redirect           *)
(*     (SpecAuth, SpecAuthFair, SpecLogin);                                *)
(*   - the sign-in error messages (SpecErrors);                            *)
(*   - the events collection, its visibility queries and the isPublic      *)
(*     migration (SpecEvents);                                             *)
(*   - the status the events page derives from an event's date            *)
(*     (SpecStatus), and registering around the start (SpecDated);         *)
(*   - the admin's 'Cancel Event' (SpecCancelFair);                        *)
(*   - the redirect to the login page and back (SpecRedirect).             *)
(* Optional values (null / undefined / a value) are sets of at most one    *)
(* element: {} is null, {x} is x.                                          *)
(***************************************************************************)
EXTENDS Integers, Sequences, FiniteSets, TLC

(* ------------------------------ bounds -------------------------------- *)
\* Registrations ever created for the event when it is a single-player event.
MaxRegs == 3
\* Registrations ever created for the event when it is a team event.
MaxTeamRegs == 2
\* Teams ever created for the event.
MaxTeams == 1
\* Largest slotsAvailable of the event.
MaxSlots == 2
\* Auth state changes (sign-ins, sign-outs, the initial one) of one page load.
MaxAuthEvents == 3
\* Failed sign-in attempts.
MaxAttempts == 2
\* Documents of the events collection.
MaxEvents == 2
\* Characters of a return path.
MaxPathLen == 3

Players == {"p1", "p2", "p3"}

None == {}
Some(x) == {x}
The(s) == CHOOSE x \in s : TRUE

VARIABLES
  \* --- Firestore collections (one event) ---
  event,            \* the event document: isTeamRegistration, slotsAvailable,
                    \* dateTime (a Timestamp or missing), status (as stored)
  registrations,    \* set of registration documents
  teams,            \* set of team documents
  notifications,    \* set of notification documents
  ids,              \* the next auto-generated registration id and team id
  \* --- per-player client state (event detail page and its dialogs) ---
  userRegistration, \* EventDetailPage.userRegistration: last snapshot's copy
  pc,               \* position of the player's running handler
  local,            \* values the running handler has read so far
  partnerDialog,    \* NotificationsPage.teamId of the PartnerResponseDialog
  \* --- Firebase Auth and the users collection ---
  authUser,         \* auth.currentUser: None or Some(uid)
  userDocs,         \* users/{uid}: "missing", or the role of the document
  authEvents,       \* auth state changes not yet handed to the callback
  authSeq,          \* number of auth state changes so far
  \* --- AuthProvider ---
  callbacks,        \* onAuthStateChanged invocations suspended at an await
  listeners,        \* live onSnapshot(users/{uid}) listeners
  unsubscribeUserData, \* the closure variable: None or Some(listener id)
  user,             \* useState: FirebaseUser | null
  userData,         \* useState: User | null
  loading,          \* useState: boolean
  \* --- the mounted page ---
  page,             \* "admin" (a guarded admin page) or "login"
  committed,        \* the auth context value of the last React commit
  view,             \* what the page rendered at the last commit
  nav,              \* per component, its last router.push
  lastNav,          \* the last router.push of the login page and its form
  returnUrl,        \* the returnUrl query parameter of /login
  formPc,           \* position of LoginForm.onSubmit
  toasts,           \* the destructive toasts of failed sign-ins
  \* --- the events collection and its readers ---
  events,           \* set of event documents
  fetched,          \* the last list of events a page fetched
  migration,        \* the last response of migrateEventsToPublic
  \* --- the events page's derived status ---
  clock,            \* Date.now()
  shownEvent,       \* the dateTime and duration of an event on the page
  dynamicStatus,    \* the status last derived for it, and when
  \* --- the admin's edit page of the event ---
  editPage,         \* EditEventPage: saving, and the last toast of handleDelete
  \* --- the redirect to the login page and back ---
  redirect          \* the return path, the login URL and the path read from it

regVars == <<event, ids, registrations, teams, notifications, userRegistration, pc, local,
             partnerDialog>>

authVars == <<authUser, userDocs, authEvents, authSeq, callbacks, listeners,
              unsubscribeUserData, user, userData, loading>>

pageVars == <<page, committed, view, nav, lastNav, returnUrl, formPc>>

eventVars == <<events, fetched, migration>>

statusVars == <<clock, shownEvent, dynamicStatus>>

vars == <<regVars, authVars, pageVars, toasts, eventVars, statusVars, editPage, redirect>>

(* ------------------------- registrations: data ------------------------ *)

NoLocal ==
  [confirmedCount |-> 0, waitlistCount |-> 0, partner |-> None, teamId |-> None,
   reg |-> None]

NoDialog == [show |-> FALSE, fromUser |-> None, teamId |-> None]

\* query(registrations, where status == "CONFIRMED").size
ConfirmedCount(regs) == Cardinality({r \in regs : r.status = "CONFIRMED"})

\* query(registrations, where status == "WAITLIST").size
WaitlistCount(regs) == Cardinality({r \in regs : r.status = "WAITLIST"})

\* handleRegister's document with the last slot refused: confirmed only while
\* the count stays below slotsAvailable - 1.
NewRegistrationOneSlotShort(id, player, confirmedCount, waitlistCount, slots) ==
  LET isConfirmed == confirmedCount + 1 < slots IN
  [ registrationId   |-> id,
    playerId         |-> player,
    isPrimary        |-> TRUE,
    status           |-> IF isConfirmed THEN "CONFIRMED" ELSE "WAITLIST",
    waitlistPosition |-> IF isConfirmed THEN None ELSE Some(waitlistCount + 1),
    confirmedAt      |-> IF isConfirmed THEN Some("serverTimestamp") ELSE None,
    partnerStatus    |-> "undefined",
    player2Id        |-> None,
    teamId           |-> None ]

\* The document RegisterDialog.handleRegister sets inside its transaction.
NewRegistration(id, player, confirmedCount, waitlistCount, slots) ==
  LET isConfirmed == confirmedCount < slots IN
  [ registrationId   |-> id,
    playerId         |-> player,
    isPrimary        |-> TRUE,
    status           |-> IF isConfirmed THEN "CONFIRMED" ELSE "WAITLIST",
    waitlistPosition |-> IF isConfirmed THEN None ELSE Some(waitlistCount + 1),
    confirmedAt      |-> IF isConfirmed THEN Some("serverTimestamp") ELSE None,
    partnerStatus    |-> "undefined",
    player2Id        |-> None,
    teamId           |-> None ]

\* The initiator's document TeamRegisterDialog.handleRegisterWithPartner sets.
NewTeamRegistration(id, player, partner, team, confirmedCount, slots) ==
  LET isConfirmed == confirmedCount < slots IN
  [ registrationId   |-> id,
    playerId         |-> player,
    isPrimary        |-> TRUE,
    status           |-> IF isConfirmed THEN "CONFIRMED" ELSE "WAITLIST",
    waitlistPosition |-> None,
    confirmedAt      |-> IF isConfirmed THEN Some("serverTimestamp") ELSE None,
    partnerStatus    |-> "PENDING",
    player2Id        |-> Some(partner),
    teamId           |-> Some(team) ]

\* The document TeamRegisterDialog.handleRegisterSolo adds.
NewSoloRegistration(id, player) ==
  [ registrationId   |-> id,
    playerId         |-> player,
    isPrimary        |-> TRUE,
    status           |-> "WAITLIST",
    waitlistPosition |-> None,
    confirmedAt      |-> None,
    partnerStatus    |-> "NONE",
    player2Id        |-> None,
    teamId           |-> None ]

\* The partner's document PartnerResponseDialog.handleAccept adds.
NewPartnerRegistration(id, player, fromUser, team) ==
  [ registrationId   |-> id,
    playerId         |-> player,
    isPrimary        |-> FALSE,
    status           |-> "CONFIRMED",
    waitlistPosition |-> None,
    confirmedAt      |-> Some("serverTimestamp"),
    partnerStatus    |-> "CONFIRMED",
    player2Id        |-> Some(fromUser),
    teamId           |-> Some(team) ]

NewTeam(team, p1, p2) ==
  [ teamId |-> team, player1Id |-> p1, player2Id |-> p2,
    player1Confirmed |-> TRUE, player2Confirmed |-> FALSE ]

NewNotification(userId, type, from) ==
  [ userId |-> userId, type |-> type, fromUserId |-> from ]

\* updateDoc(ref, fields) on the document with this id; the other documents
\* are left alone.
UpdateReg(regs, id, updated) ==
  {IF r.registrationId = id THEN updated ELSE r : r \in regs}

\* The document with this id.
RegOf(regs, id) == CHOOSE r \in regs : r.registrationId = id

\* A deleteDoc that also hands the freed slot to the head of the waitlist.
DeleteRegAutoPromote(regs, id) ==
  LET rest == {r \in regs : r.registrationId # id}
      waiting == {r \in rest : r.status = "WAITLIST"} IN
  IF waiting = {} \/ rest = regs
    THEN rest
    ELSE LET head == CHOOSE r \in waiting :
                       \A o \in waiting : r.registrationId <= o.registrationId IN
         {IF r = head THEN [r EXCEPT !.status = "CONFIRMED", !.waitlistPosition = {}]
                      ELSE r : r \in rest}

\* deleteDoc(doc(db, "registrations", id)); deleting a missing document succeeds.
DeleteReg(regs, id) == {r \in regs : r.registrationId # id}

RegExists(regs, id) == \E r \in regs : r.registrationId = id

\* Ids come from doc(collection(...)): never handed out twice.
newRegId == ids.reg
newTeamId == ids.team

\* Handlers that will still add a registration / a team.
RegCreating == {"hr_waitlist", "hr_commit", "hp_commit", "ha_reg", "ha_add"}
TeamCreating == {"hp_commit"}
RegIdsLeft ==
  (IF event.isTeamRegistration THEN MaxTeamRegs ELSE MaxRegs) - (ids.reg - 1)
    - Cardinality({p \in Players : pc[p] \in RegCreating})
TeamIdsLeft ==
  MaxTeams - (ids.team - 1) - Cardinality({p \in Players : pc[p] \in TeamCreating})

\* The handlers made of several separately awaited writes (team withdrawal,
\* team request, accept, decline) are run one at a time and to their end:
\* such a handler starts when no other player is inside a handler, and no
\* other handler, listener or admin action runs before it has ended.  The
\* two transactional registration handlers interleave freely with each
\* other, with the listeners and with the admin.
Sequenced == {"tw_notify", "tw_delete", "st_update", "st_notify", "ha_reg", "ha_add",
              "ha_notify", "hd_team", "hd_notify"}
NoneSequenced(p) == \A q \in Players \ {p} : pc[q] \notin Sequenced
NoSequenced == \A q \in Players : pc[q] \notin Sequenced
OthersIdle(p) == \A q \in Players \ {p} : pc[q] = "idle"

Goto(p, label, loc) ==
  /\ pc' = [pc EXCEPT ![p] = label]
  /\ local' = [local EXCEPT ![p] = loc]

\* Timestamp.toMillis()
toMillis(timestamp) == timestamp.seconds * 1000 + timestamp.nanoseconds \div 1000000

\* TeamRegisterDialog.isEventPast: false without a dateTime, else
\* event.dateTime.toDate() < new Date().
isEventPast ==
  IF event.dateTime = None THEN FALSE
  ELSE toMillis(The(event.dateTime)) < clock

\* EventDetailPage, the bottom bar with the 'Register Now' and 'Manage'
\* buttons that open the dialogs: rendered by the stored status alone.
showsCTA == event.status # "Cancelled" /\ event.status # "Past"

(* --------------------- EventDetailPage: the listener ------------------- *)

\* onSnapshot(regQuery): userReg = regsData.find(r => r.playerId === user.uid);
\* setUserRegistration(userReg || null).  With several documents of the same
\* player the first one in snapshot order is taken: any of them.
RegistrationsSnapshot(p) ==
  /\ NoSequenced
  /\ \E v \in {Some(r) : r \in {x \in registrations : x.playerId = p}}
             \cup (IF \E x \in registrations : x.playerId = p THEN {} ELSE {None}) :
        /\ v # userRegistration[p]
        /\ userRegistration' = [userRegistration EXCEPT ![p] = v]
  /\ UNCHANGED <<event, ids, registrations, teams, notifications, pc, local, partnerDialog>>

(* ---------------------- RegisterDialog (single events) ----------------- *)

\* handleRegister, up to the first getDocs: the CONFIRMED count.  getDocs is a
\* plain query: it is not part of the transaction's read set.
handleRegister_readConfirmed(p) ==
  /\ ~event.isTeamRegistration
  /\ showsCTA
  /\ pc[p] = "idle"
  /\ NoneSequenced(p)
  /\ userRegistration[p] = None
  /\ RegIdsLeft > 0
  /\ Goto(p, "hr_waitlist", [NoLocal EXCEPT !.confirmedCount = ConfirmedCount(registrations)])
  /\ UNCHANGED <<event, ids, registrations, teams, notifications, userRegistration, partnerDialog>>

\* handleRegister, the second getDocs: the WAITLIST count.
handleRegister_readWaitlist(p) ==
  /\ pc[p] = "hr_waitlist"
  /\ Goto(p, "hr_commit", [local[p] EXCEPT !.waitlistCount = WaitlistCount(registrations)])
  /\ UNCHANGED <<event, ids, registrations, teams, notifications, userRegistration, partnerDialog>>

\* handleRegister, transaction.set and the commit.  The transaction has read
\* no document through transaction.get, so the commit never conflicts.
handleRegister_commit(p) ==
  /\ pc[p] = "hr_commit"
  /\ registrations' = registrations \cup
       {NewRegistration(newRegId, p, local[p].confirmedCount, local[p].waitlistCount,
                        event.slotsAvailable)}
  /\ Goto(p, "idle", NoLocal)
  /\ ids' = [ids EXCEPT !.reg = @ + 1]
  /\ UNCHANGED <<event, teams, notifications, userRegistration, partnerDialog>>

\* RegisterDialog.handleWithdraw: deleteDoc of the registration of the view.
handleWithdraw(p) ==
  /\ ~event.isTeamRegistration
  /\ pc[p] = "idle"
  /\ NoneSequenced(p)
  /\ userRegistration[p] # None
  /\ registrations' = DeleteReg(registrations, The(userRegistration[p]).registrationId)
  /\ UNCHANGED <<event, ids, teams, notifications, userRegistration,
                 pc, local, partnerDialog>>

(* ---------------------- TeamRegisterDialog (team events) ---------------- *)

\* handleRegisterWithPartner, up to getDocs: the CONFIRMED count.  The partner
\* is one of the search results, which leave out the user themself.
handleRegisterWithPartner_read(p) ==
  /\ event.isTeamRegistration
  /\ showsCTA
  /\ ~isEventPast
  /\ pc[p] = "idle"
  /\ NoneSequenced(p)
  /\ userRegistration[p] = None
  /\ RegIdsLeft > 0
  /\ TeamIdsLeft > 0
  /\ \E selectedPartner \in Players \ {p} :
       Goto(p, "hp_commit", [NoLocal EXCEPT !.confirmedCount = ConfirmedCount(registrations),
                                            !.partner = Some(selectedPartner)])
  /\ UNCHANGED <<event, ids, registrations, teams, notifications, userRegistration, partnerDialog>>

\* handleRegisterWithPartner, the commit: the team, the initiator's
\* registration and the partner's notification in one write set.
handleRegisterWithPartner_commit(p) ==
  /\ pc[p] = "hp_commit"
  /\ teams' = teams \cup {NewTeam(newTeamId, p, The(local[p].partner))}
  /\ registrations' = registrations \cup
       {NewTeamRegistration(newRegId, p, The(local[p].partner), newTeamId,
                            local[p].confirmedCount, event.slotsAvailable)}
  /\ notifications' = notifications \cup
       {NewNotification(The(local[p].partner), "partner_invite", p)}
  /\ Goto(p, "idle", NoLocal)
  /\ ids' = [reg |-> ids.reg + 1, team |-> ids.team + 1]
  /\ UNCHANGED <<event, userRegistration, partnerDialog>>

\* handleRegisterSolo: one addDoc, always WAITLIST.
handleRegisterSolo(p) ==
  /\ event.isTeamRegistration
  /\ showsCTA
  /\ ~isEventPast
  /\ pc[p] = "idle"
  /\ NoneSequenced(p)
  /\ userRegistration[p] = None
  /\ RegIdsLeft > 0
  /\ registrations' = registrations \cup {NewSoloRegistration(newRegId, p)}
  /\ ids' = [ids EXCEPT !.reg = @ + 1]
  /\ UNCHANGED <<event, teams, notifications, userRegistration, pc, local,
                 partnerDialog>>

\* TeamRegisterDialog.handleWithdraw, first await: with a teamId in the view,
\* the team document is looked up and deleted; without one the registration
\* is deleted at once.
handleWithdrawTeam_start(p) ==
  /\ event.isTeamRegistration
  /\ pc[p] = "idle"
  /\ OthersIdle(p)
  /\ userRegistration[p] # None
  /\ LET reg == The(userRegistration[p]) IN
     IF reg.teamId # None
       THEN /\ teams' = {t \in teams : t.teamId # The(reg.teamId)}
            /\ registrations' = registrations
            /\ Goto(p, IF reg.player2Id # None THEN "tw_notify" ELSE "tw_delete",
                    [NoLocal EXCEPT !.reg = Some(reg)])
       ELSE /\ registrations' = DeleteReg(registrations, reg.registrationId)
            /\ UNCHANGED <<teams, pc, local>>
  /\ UNCHANGED <<event, ids, notifications, userRegistration,
                 partnerDialog>>

\* TeamRegisterDialog.handleWithdraw: the team_cancelled notification.
handleWithdrawTeam_notify(p) ==
  /\ pc[p] = "tw_notify"
  /\ notifications' = notifications \cup
       {NewNotification(The(The(local[p].reg).player2Id), "team_cancelled", p)}
  /\ Goto(p, "tw_delete", local[p])
  /\ UNCHANGED <<event, ids, registrations, teams, userRegistration,
                 partnerDialog>>

\* TeamRegisterDialog.handleWithdraw: the final deleteDoc.
handleWithdrawTeam_delete(p) ==
  /\ pc[p] = "tw_delete"
  /\ registrations' = DeleteReg(registrations, The(local[p].reg).registrationId)
  /\ Goto(p, "idle", NoLocal)
  /\ UNCHANGED <<event, ids, teams, notifications, userRegistration,
                 partnerDialog>>

(* ------------------------- SinglePlayersList --------------------------- *)

\* EventDetailPage.singlePlayers: the players listed with a registration
\* whose partnerStatus is NONE or DENIED.
singlePlayers(regs) == {r.playerId : r \in {x \in regs : x.partnerStatus \in {"NONE", "DENIED"}}}

\* SinglePlayersList.canRequestTeamUp
canRequestTeamUp(currentUserReg) ==
  currentUserReg # None /\ The(currentUserReg).partnerStatus \in {"NONE", "DENIED"}

\* sendTeamRequest, first await: addDoc of the team.
sendTeamRequest_team(p) ==
  /\ event.isTeamRegistration
  /\ pc[p] = "idle"
  /\ OthersIdle(p)
  /\ canRequestTeamUp(userRegistration[p])
  /\ TeamIdsLeft > 0
  /\ \E targetPlayer \in singlePlayers(registrations) \ {p} :
       /\ teams' = teams \cup {NewTeam(newTeamId, p, targetPlayer)}
       /\ Goto(p, "st_update", [NoLocal EXCEPT !.partner = Some(targetPlayer),
                                              !.teamId = Some(newTeamId),
                                              !.reg = userRegistration[p]])
  /\ ids' = [ids EXCEPT !.team = @ + 1]
  /\ UNCHANGED <<event, registrations, notifications, userRegistration,
                 partnerDialog>>

\* sendTeamRequest, second await: updateDoc of the sender's registration;
\* updateDoc of a document that is gone throws and the handler ends.
sendTeamRequest_update(p) ==
  /\ pc[p] = "st_update"
  /\ LET id == The(local[p].reg).registrationId
         link(r) == [r EXCEPT !.partnerStatus = "PENDING",
                              !.player2Id = local[p].partner,
                              !.teamId = local[p].teamId] IN
     IF RegExists(registrations, id)
       THEN /\ registrations' = UpdateReg(registrations, id, link(RegOf(registrations, id)))
            /\ Goto(p, "st_notify", local[p])
       ELSE /\ registrations' = registrations
            /\ Goto(p, "idle", NoLocal)
  /\ UNCHANGED <<event, ids, teams, notifications, userRegistration,
                 partnerDialog>>

\* sendTeamRequest, third await: the partner_invite notification.
sendTeamRequest_notify(p) ==
  /\ pc[p] = "st_notify"
  /\ notifications' = notifications \cup
       {NewNotification(The(local[p].partner), "partner_invite", p)}
  /\ Goto(p, "idle", NoLocal)
  /\ UNCHANGED <<event, ids, registrations, teams, userRegistration,
                 partnerDialog>>

(* ----------------- NotificationsPage / PartnerResponseDialog ------------ *)

\* handlePartnerInviteClick: partnerUser is the sender; teamId is set from the
\* sender's registration that names this user as player2Id, and keeps its
\* previous value when there is none.
handlePartnerInviteClick(p) ==
  /\ pc[p] = "idle"
  /\ NoneSequenced(p)
  /\ \E n \in {x \in notifications : x.userId = p /\ x.type = "partner_invite"} :
       LET found == {r \in registrations :
                       r.playerId = n.fromUserId /\ r.player2Id = Some(p)} IN
       \E team \in (IF found = {} THEN {partnerDialog[p].teamId}
                                   ELSE {r.teamId : r \in found}) :
         /\ partnerDialog' = [partnerDialog EXCEPT ![p] =
              [show |-> TRUE, fromUser |-> Some(n.fromUserId), teamId |-> team]]
         /\ partnerDialog'[p] # partnerDialog[p]
  /\ UNCHANGED <<event, ids, registrations, teams, notifications, userRegistration, pc, local>>

\* showPartnerDialog && partnerEvent && partnerUser && teamId
DialogShown(p) ==
  partnerDialog[p].show /\ partnerDialog[p].fromUser # None /\ partnerDialog[p].teamId # None

CloseDialog(p) == partnerDialog' = [partnerDialog EXCEPT ![p].show = FALSE]

\* handleAccept, first await pair: the team gets player2Confirmed.
handleAccept_team(p) ==
  /\ pc[p] = "idle"
  /\ OthersIdle(p)
  /\ DialogShown(p)
  /\ RegIdsLeft > 0
  /\ teams' = {IF t.teamId = The(partnerDialog[p].teamId)
                 THEN [t EXCEPT !.player2Confirmed = TRUE] ELSE t : t \in teams}
  /\ Goto(p, "ha_reg", [NoLocal EXCEPT !.partner = partnerDialog[p].fromUser,
                                       !.teamId = partnerDialog[p].teamId])
  /\ UNCHANGED <<event, ids, registrations, notifications, userRegistration, partnerDialog>>

\* The primary registration of a team: regSnapshot.docs[0] of the query
\* teamId == t and isPrimary == true.
PrimaryOfTeam(regs, t) == {r \in regs : r.teamId = t /\ r.isPrimary}

\* handleAccept, second await pair: the initiator's partnerStatus.
handleAccept_reg(p) ==
  /\ pc[p] = "ha_reg"
  /\ LET found == PrimaryOfTeam(registrations, local[p].teamId)
         confirm(r) == [r EXCEPT !.partnerStatus = "CONFIRMED"] IN
     IF found = {}
       THEN registrations' = registrations
       ELSE \E r \in found :
              registrations' = UpdateReg(registrations, r.registrationId, confirm(r))
  /\ Goto(p, "ha_add", local[p])
  /\ UNCHANGED <<event, ids, teams, notifications, userRegistration,
                 partnerDialog>>

\* handleAccept, third await: the partner's own registration, CONFIRMED.
handleAccept_add(p) ==
  /\ pc[p] = "ha_add"
  /\ registrations' = registrations \cup
       {NewPartnerRegistration(newRegId, p, The(local[p].partner), The(local[p].teamId))}
  /\ Goto(p, "ha_notify", local[p])
  /\ ids' = [ids EXCEPT !.reg = @ + 1]
  /\ UNCHANGED <<event, teams, notifications, userRegistration, partnerDialog>>

\* handleAccept, fourth await: partner_accepted, then the dialog closes.
handleAccept_notify(p) ==
  /\ pc[p] = "ha_notify"
  /\ notifications' = notifications \cup
       {NewNotification(The(local[p].partner), "partner_accepted", p)}
  /\ Goto(p, "idle", NoLocal)
  /\ CloseDialog(p)
  /\ UNCHANGED <<event, ids, registrations, teams, userRegistration>>

\* handleDecline, first await pair: the initiator's registration is DENIED
\* and unlinked.
handleDecline_reg(p) ==
  /\ pc[p] = "idle"
  /\ OthersIdle(p)
  /\ DialogShown(p)
  /\ LET found == PrimaryOfTeam(registrations, partnerDialog[p].teamId)
         deny(r) == [r EXCEPT !.partnerStatus = "DENIED", !.player2Id = None,
                              !.teamId = None] IN
     IF found = {}
       THEN registrations' = registrations
       ELSE \E r \in found :
              registrations' = UpdateReg(registrations, r.registrationId, deny(r))
  /\ Goto(p, "hd_team", [NoLocal EXCEPT !.partner = partnerDialog[p].fromUser,
                                        !.teamId = partnerDialog[p].teamId])
  /\ UNCHANGED <<event, ids, teams, notifications, userRegistration,
                 partnerDialog>>

\* handleDecline, second await pair: the team is kept, player2Confirmed false.
handleDecline_team(p) ==
  /\ pc[p] = "hd_team"
  /\ teams' = {IF t.teamId = The(local[p].teamId)
                 THEN [t EXCEPT !.player2Confirmed = FALSE] ELSE t : t \in teams}
  /\ Goto(p, "hd_notify", local[p])
  /\ UNCHANGED <<event, ids, registrations, notifications, userRegistration, partnerDialog>>

\* handleDecline, third await: partner_denied, then the dialog closes.
handleDecline_notify(p) ==
  /\ pc[p] = "hd_notify"
  /\ notifications' = notifications \cup
       {NewNotification(The(local[p].partner), "partner_denied", p)}
  /\ Goto(p, "idle", NoLocal)
  /\ CloseDialog(p)
  /\ UNCHANGED <<event, ids, registrations, teams, userRegistration>>

(* ------------------ admin: EventRegistrationsPage ----------------------- *)

\* The fields promoteFromWaitlist writes.
Promoted(r) == [r EXCEPT !.status = "CONFIRMED", !.waitlistPosition = None]

\* promoteFromWaitlist(registration), offered on every row of the waitlist.
promoteFromWaitlist(id) ==
  /\ NoSequenced
  /\ \E r \in registrations : r.registrationId = id /\ r.status = "WAITLIST"
  /\ registrations' = UpdateReg(registrations, id, Promoted(RegOf(registrations, id)))
  /\ UNCHANGED <<event, ids, teams, notifications, userRegistration,
                 pc, local, partnerDialog>>

\* removeRegistration(registration), offered on every row.
removeRegistration(id) ==
  /\ NoSequenced
  /\ RegExists(registrations, id)
  /\ registrations' = DeleteReg(registrations, id)
  /\ UNCHANGED <<event, ids, teams, notifications, userRegistration,
                 pc, local, partnerDialog>>

(* ------------------------- admin: the edit page ------------------------- *)

\* EditEventPage.handleDelete ('Yes, Cancel Event'), up to the await:
\* setSaving(true).
handleDelete_start ==
  /\ ~editPage.saving
  /\ editPage' = [saving |-> TRUE, toast |-> None]
  /\ UNCHANGED regVars

\* handleDelete after the await: updateDoc(eventRef, {status: "Cancelled"})
\* has written the one field and the toast says so, or it has rejected and
\* the catch block shows the error; finally setSaving(false).  No other
\* document is written.
handleDelete_updateDoc(ok) ==
  /\ editPage.saving
  /\ event' = IF ok THEN [event EXCEPT !.status = "Cancelled"] ELSE event
  /\ editPage' = [saving |-> FALSE,
                  toast |-> Some(IF ok THEN "Event cancelled" ELSE "Error")]
  /\ UNCHANGED <<ids, registrations, teams, notifications, userRegistration,
                 pc, local, partnerDialog>>

(* ------------------------ auth: data and helpers ------------------------ *)
Users == {"a", "b"}

DocValues == {"missing", "player", "admin"}

\* doc.data() of users/{uid} as the listener hands it to setUserData.
UserDataOf(u, d) == IF d = "missing" THEN None ELSE Some([uid |-> u, role |-> d])

\* The value the auth context provides to its consumers.
AuthContext == [user |-> user, userData |-> userData, loading |-> loading]

\* userData?.role === "admin"
isAdmin(ctx) == ctx.userData # None /\ The(ctx.userData).role = "admin"

\* What AdminProtectedComponent returns.
AdminProtectedComponentNoRoleCheck(ctx) ==
  IF ctx.loading THEN "spinner"
  ELSE IF ctx.user = None THEN "null"
  ELSE "component"

AdminProtectedComponent(ctx) ==
  IF ctx.loading THEN "spinner"
  ELSE IF ctx.user = None \/ ~isAdmin(ctx) THEN "null"
  ELSE "component"

\* What LoginPage returns.
LoginPage(ctx) ==
  IF ctx.loading THEN "spinner"
  ELSE IF ctx.user # None THEN "null"
  ELSE "form"

\* The router.push of each effect ("none": the effect pushes nothing).
withAdminProtection_effect(ctx) ==
  IF ctx.loading THEN "none"
  ELSE IF ctx.user = None THEN "/login"
  ELSE IF ~isAdmin(ctx) THEN "/events"
  ELSE "none"

useRequireAdmin_effect(ctx) ==
  IF ~ctx.loading /\ (ctx.user = None \/ ~isAdmin(ctx)) THEN "/events" ELSE "none"

AdminPage_effect(ctx) ==
  IF ~ctx.loading /\ ~isAdmin(ctx) THEN "/events" ELSE "none"

LoginPage_effect(ctx) ==
  IF ~ctx.loading /\ ctx.user # None THEN "/dashboard" ELSE "none"

\* redirectManager.getReturnUrl: searchParams.get("returnUrl") || "/dashboard"
getReturnUrl(param) == IF param = None \/ param = Some("") THEN "/dashboard" ELSE The(param)

Guards == {"withAdminProtection", "useRequireAdmin", "AdminPage"}
Components == Guards \cup {"LoginPage", "LoginForm"}

NoNav == [to |-> "none", user |-> None]

\* nav after component c pushed target while rendering for ctx.
Pushed(n, c, target, ctx) ==
  IF target = "none" THEN n ELSE [n EXCEPT ![c] = [to |-> target, user |-> ctx.user]]

\* Id of the invocation that receives the head of authEvents.
newCallbackId == authSeq - Len(authEvents) + 1

(* ---------------------------- auth: actions ----------------------------- *)
\* Another tab signs in: the shared persistence reports the user here.
signIn(u) ==
  /\ page = "admin"
  /\ authUser = None
  /\ authSeq < MaxAuthEvents
  /\ authUser' = Some(u)
  /\ authEvents' = Append(authEvents, Some(u))
  /\ authSeq' = authSeq + 1
  /\ UNCHANGED <<userDocs, callbacks, listeners, unsubscribeUserData, user, userData, loading>>
  /\ UNCHANGED pageVars

\* logout: await signOut(auth); setUserData(null)
logout ==
  /\ page = "admin"
  /\ authUser # None
  /\ authSeq < MaxAuthEvents
  /\ authUser' = None
  /\ authEvents' = Append(authEvents, None)
  /\ authSeq' = authSeq + 1
  /\ userData' = None
  /\ UNCHANGED <<userDocs, callbacks, listeners, unsubscribeUserData, user, loading>>
  /\ UNCHANGED pageVars

\* The callback up to its first await (or to its end for a null user).
onAuthStateChanged_start ==
  /\ authEvents # <<>>
  /\ LET firebaseUser == Head(authEvents) IN
       /\ authEvents' = Tail(authEvents)
       /\ listeners' = {l \in listeners : Some(l.id) # unsubscribeUserData}
       /\ unsubscribeUserData' = None
       /\ user' = firebaseUser
       /\ IF firebaseUser # None
            THEN /\ callbacks' = callbacks \cup
                       {[id |-> newCallbackId, uid |-> The(firebaseUser), at |-> "getDoc"]}
                 /\ UNCHANGED <<userData, loading>>
            ELSE /\ userData' = None
                 /\ loading' = FALSE
                 /\ UNCHANGED callbacks
  /\ UNCHANGED <<authUser, userDocs, authSeq>>
  /\ UNCHANGED pageVars

\* onSnapshot(userDocRef, ...) is registered and setLoading(false) runs in the
\* same continuation; the first snapshot is delivered later.
Listen(c) ==
  /\ listeners' = listeners \cup {[id |-> c.id, uid |-> c.uid, sent |-> "unsent"]}
  /\ unsubscribeUserData' = Some(c.id)
  /\ loading' = FALSE
  /\ callbacks' = callbacks \ {c}

\* await getDoc(userDocRef) resolves.
onAuthStateChanged_getDoc(c) ==
  /\ c \in callbacks
  /\ c.at = "getDoc"
  /\ IF userDocs[c.uid] # "missing"
       THEN Listen(c)
       ELSE /\ callbacks' = (callbacks \ {c}) \cup {[c EXCEPT !.at = "create"]}
            /\ UNCHANGED <<listeners, unsubscribeUserData, loading>>
  /\ UNCHANGED <<authUser, userDocs, authEvents, authSeq, user, userData>>
  /\ UNCHANGED pageVars

\* await handleGoogleUserDoc(firebaseUser) resolves.
onAuthStateChanged_create(c) ==
  /\ c \in callbacks
  /\ c.at = "create"
  /\ userDocs' = IF userDocs[c.uid] = "missing"
                   THEN [userDocs EXCEPT ![c.uid] = "player"] ELSE userDocs
  /\ Listen(c)
  /\ UNCHANGED <<authUser, authEvents, authSeq, user, userData>>
  /\ UNCHANGED pageVars

\* getDoc rejects (offline, permission denied): the catch block.
onAuthStateChanged_catch(c) ==
  /\ c \in callbacks
  /\ userData' = None
  /\ loading' = FALSE
  /\ callbacks' = callbacks \ {c}
  /\ UNCHANGED <<authUser, userDocs, authEvents, authSeq, listeners, unsubscribeUserData, user>>
  /\ UNCHANGED pageVars

\* A listener receives the document's current state (first the initial one).
UserDataSnapshot(l) ==
  /\ l \in listeners
  /\ l.sent # userDocs[l.uid]
  /\ userData' = UserDataOf(l.uid, userDocs[l.uid])
  /\ listeners' = (listeners \ {l}) \cup {[l EXCEPT !.sent = userDocs[l.uid]]}
  /\ UNCHANGED <<authUser, userDocs, authEvents, authSeq, callbacks, unsubscribeUserData,
                 user, loading>>
  /\ UNCHANGED pageVars

UserDataSnapshotOf(i) == \E l \in listeners : l.id = i /\ UserDataSnapshot(l)

\* The listener's error callback; Firestore ends a listener that errored.
UserDataListenerError(l) ==
  /\ l \in listeners
  /\ userData' = None
  /\ listeners' = listeners \ {l}
  /\ UNCHANGED <<authUser, userDocs, authEvents, authSeq, callbacks, unsubscribeUserData,
                 user, loading>>
  /\ UNCHANGED pageVars

\* The admin's players page saves a player with another role.
updatePlayer(u, role) ==
  /\ userDocs[u] \notin {"missing", role}
  /\ userDocs' = [userDocs EXCEPT ![u] = role]
  /\ UNCHANGED <<authUser, authEvents, authSeq, callbacks, listeners, unsubscribeUserData,
                 user, userData, loading>>
  /\ UNCHANGED pageVars

\* The admin's players page deletes a player's document.
deletePlayer(u) ==
  /\ userDocs[u] # "missing"
  /\ userDocs' = [userDocs EXCEPT ![u] = "missing"]
  /\ UNCHANGED <<authUser, authEvents, authSeq, callbacks, listeners, unsubscribeUserData,
                 user, userData, loading>>
  /\ UNCHANGED pageVars

(* ---------------------- pages: commits and the form --------------------- *)
\* React renders the mounted page with the current context value and runs the
\* effects whose dependencies changed.  State updates made before the commit
\* are batched into it.
ReactCommit ==
  /\ committed # AuthContext
  /\ committed' = AuthContext
  /\ LET ctx == AuthContext
         adminDeps == isAdmin(committed) # isAdmin(ctx) \/ committed.loading # ctx.loading
         loginDeps == committed.user # ctx.user \/ committed.loading # ctx.loading
         adminTarget == IF adminDeps THEN AdminPage_effect(ctx) ELSE "none"
         loginTarget == IF loginDeps THEN LoginPage_effect(ctx) ELSE "none"
     IN IF page = "admin"
          THEN /\ view' = AdminProtectedComponent(ctx)
               /\ nav' = Pushed(Pushed(Pushed(nav,
                           "withAdminProtection", withAdminProtection_effect(ctx), ctx),
                           "useRequireAdmin", useRequireAdmin_effect(ctx), ctx),
                           "AdminPage", adminTarget, ctx)
               /\ UNCHANGED lastNav
          ELSE /\ view' = LoginPage(ctx)
               /\ nav' = Pushed(nav, "LoginPage", loginTarget, ctx)
               /\ lastNav' = IF loginTarget = "none" THEN lastNav ELSE loginTarget
  /\ UNCHANGED <<page, returnUrl, formPc>>
  /\ UNCHANGED authVars

\* LoginForm.onSubmit: await signIn(email, password) resolves.
onSubmit_signIn(u) ==
  /\ page = "login"
  /\ view = "form"
  /\ formPc = "idle"
  /\ authUser = None
  /\ authSeq < MaxAuthEvents
  /\ authUser' = Some(u)
  /\ authEvents' = Append(authEvents, Some(u))
  /\ authSeq' = authSeq + 1
  /\ formPc' = "signedIn"
  /\ UNCHANGED <<userDocs, callbacks, listeners, unsubscribeUserData, user, userData, loading>>
  /\ UNCHANGED <<page, committed, view, nav, lastNav, returnUrl>>

\* LoginForm.onSubmit: toast and router.push(returnUrl).
onSubmit_push ==
  /\ formPc = "signedIn"
  /\ formPc' = "done"
  /\ nav' = Pushed(nav, "LoginForm", getReturnUrl(returnUrl), AuthContext)
  /\ lastNav' = getReturnUrl(returnUrl)
  /\ UNCHANGED <<page, committed, view, returnUrl>>
  /\ UNCHANGED authVars

(* --------------------------- sign-in error messages --------------------- *)
InvalidCredentials == "Invalid email or password."

Fallback == "An unexpected error occurred. Please try again."

\* getFirebaseErrorMessage's table.
errorMessages ==
  ( "auth/invalid-email" :> "Please enter a valid email address." ) @@
  ( "auth/user-disabled" :> "This account has been disabled. Please contact support." ) @@
  ( "auth/user-not-found" :> InvalidCredentials ) @@
  ( "auth/wrong-password" :> InvalidCredentials ) @@
  ( "auth/invalid-credential" :> InvalidCredentials ) @@
  ( "auth/invalid-login-credentials" :> InvalidCredentials ) @@
  ( "auth/email-already-in-use" :>
      "This email is already registered. Please sign in instead." ) @@
  ( "auth/weak-password" :> "Password must be at least 6 characters long." ) @@
  ( "auth/operation-not-allowed" :>
      "This sign-in method is not enabled. Please contact support." ) @@
  ( "auth/popup-blocked" :> "Popup was blocked. Please allow popups for this site." ) @@
  ( "auth/popup-closed-by-user" :> "Sign-in was cancelled." ) @@
  ( "auth/cancelled-popup-request" :> "Sign-in was cancelled." ) @@
  ( "auth/unauthorized-domain" :>
      "This domain is not authorized. Please contact support." ) @@
  ( "auth/account-exists-with-different-credential" :>
      "An account already exists with this email. Please sign in using your original method." ) @@
  ( "auth/network-request-failed" :>
      "Network error. Please check your connection and try again." ) @@
  ( "auth/too-many-requests" :> "Too many attempts. Please try again later." ) @@
  ( "auth/requires-recent-login" :>
      "Please sign out and sign in again to perform this action." )

\* The lookup with auth/user-not-found telling that the email has no account.
getFirebaseErrorMessageRevealing(errorCode) ==
  IF errorCode = "auth/user-not-found" THEN "No account found with this email."
  ELSE IF errorCode \in DOMAIN errorMessages THEN errorMessages[errorCode]
  ELSE Fallback

\* errorMessages[errorCode] || fallback
getFirebaseErrorMessage(errorCode) ==
  IF errorCode \in DOMAIN errorMessages THEN errorMessages[errorCode] ELSE Fallback

\* Codes signInWithEmailAndPassword rejects with that the table does not list.
UnknownCodes == {"auth/internal-error", "auth/missing-password", "auth/timeout"}

\* error.code of a rejected sign-in: a code, the empty string or no code.
ErrorCodes == {Some(c) : c \in DOMAIN errorMessages \cup UnknownCodes \cup {""}} \cup {None}

\* LoginForm.onSubmit, catch block: the destructive toast of a failed sign-in.
onSubmit_failed(code) ==
  /\ Len(toasts) < MaxAttempts
  /\ LET errorCode == IF code = None \/ code = Some("") THEN "unknown" ELSE The(code)
         errorMessage == getFirebaseErrorMessage(errorCode)
     IN toasts' = Append(toasts, [code |-> code, title |-> "Sign in failed",
                                  description |-> errorMessage])

(* ------------------------- events: data and queries --------------------- *)
EventIds == 1..MaxEvents

\* isPublic: None (field missing or null), Some(TRUE), Some(FALSE).
\* dateTime: "missing", a Timestamp in the "past" or the "future", or a string
\* that parses to such a date ("str_past", "str_future") or to none.
DateTimes == {"missing", "past", "future", "str_past", "str_future", "str_invalid"}

isString(dateTime) == dateTime \in {"str_past", "str_future", "str_invalid"}

\* Firestore's order of dateTime values: Timestamps by time, then strings.
Rank(dateTime) ==
  CASE dateTime = "past" -> 1
    [] dateTime = "future" -> 2
    [] OTHER -> 3

\* orderBy("dateTime", direction): by value, then by document id.
OrderKey(e) == Rank(e.dateTime) * (MaxEvents + 1) + e.eventId

RECURSIVE Ordered(_, _)
Ordered(docs, desc) ==
  IF docs = {} THEN <<>>
  ELSE LET first == CHOOSE x \in docs : \A y \in docs :
                      IF desc THEN OrderKey(x) >= OrderKey(y) ELSE OrderKey(x) <= OrderKey(y)
       IN <<first>> \o Ordered(docs \ {first}, desc)

\* limit(n), when the option is given.
Limited(docs, limitCount) ==
  IF limitCount = None \/ The(limitCount) >= Len(docs) THEN docs
  ELSE SubSeq(docs, 1, The(limitCount))

\* where("dateTime", ">=" or "<", Timestamp.now()) matches Timestamps only.
Dated(docs, when) ==
  CASE when = "upcoming" -> {e \in docs : e.dateTime = "future"}
    [] when = "past" -> {e \in docs : e.dateTime = "past"}
    [] OTHER -> docs

\* orderBy("dateTime") leaves out the documents without the field.
WithDateTime(docs) == {e \in docs : e.dateTime # "missing"}

Options == [upcomingOnly : BOOLEAN, limitCount : {None, Some(1)}]

\* getPublicEvents without its isPublic constraint.
getPublicEventsUnfiltered(docs, options) ==
  Limited(Ordered(WithDateTime(Dated(docs,
            IF options.upcomingOnly THEN "upcoming" ELSE "all")), FALSE),
          options.limitCount)

getPublicEvents(docs, options) ==
  Limited(Ordered(WithDateTime(Dated({e \in docs : e.isPublic = Some(TRUE)},
            IF options.upcomingOnly THEN "upcoming" ELSE "all")), FALSE),
          options.limitCount)

getAllEventsForAdmin(docs, options) ==
  Limited(Ordered(WithDateTime(Dated(docs,
            IF options.upcomingOnly THEN "upcoming" ELSE "all")), FALSE),
          options.limitCount)

Statuses == {"Upcoming", "Active", "Past", "Cancelled"}

getEventsByStatus(docs, status, admin) ==
  LET visible == IF admin THEN docs ELSE {e \in docs : e.isPublic = Some(TRUE)}
      matching == CASE status = "Upcoming" -> Dated(visible, "upcoming")
                    [] status = "Past" -> Dated(visible, "past")
                    [] status = "Cancelled" -> {e \in visible : e.status = "Cancelled"}
                    [] OTHER -> visible
  IN Ordered(WithDateTime(matching), status = "Past")

canViewEvent(e, admin) == admin \/ e.isPublic = Some(TRUE)

NoFetch == [by |-> "none", admin |-> FALSE, options |-> None, status |-> None, data |-> <<>>]

\* A page keeps the data of a successful response.
Fetched(by, admin, options, status, data) ==
  [by |-> by, admin |-> admin, options |-> options, status |-> status, data |-> data]

(* ---------------------------- events: actions --------------------------- *)
\* EventsPage.loadData: getPublicEvents({ upcomingOnly: false }), setEvents.
loadData ==
  /\ fetched' = Fetched("EventsPage", FALSE, None, None,
                        getPublicEvents(events, [upcomingOnly |-> FALSE, limitCount |-> None]))
  /\ UNCHANGED <<events, migration>>

fetchPublicEvents(options) ==
  /\ fetched' = Fetched("getPublicEvents", FALSE, Some(options), None,
                        getPublicEvents(events, options))
  /\ UNCHANGED <<events, migration>>

fetchAllEventsForAdmin(options) ==
  /\ fetched' = Fetched("getAllEventsForAdmin", TRUE, Some(options), None,
                        getAllEventsForAdmin(events, options))
  /\ UNCHANGED <<events, migration>>

fetchEventsByStatus(status, admin) ==
  /\ fetched' = Fetched("getEventsByStatus", admin, None, Some(status),
                        getEventsByStatus(events, status, admin))
  /\ UNCHANGED <<events, migration>>

\* NewEventPage.handleSubmit: addDoc with the form's isPublic and a Date.
createEvent(id, public, dateTime) ==
  /\ \A e \in events : e.eventId # id
  /\ \A smaller \in 1..(id - 1) : \E e \in events : e.eventId = smaller
  /\ events' = events \cup {[eventId |-> id, isPublic |-> Some(public),
                             dateTime |-> dateTime, status |-> "Upcoming"]}
  /\ UNCHANGED <<fetched, migration>>

(* ------------------------- events: the migration ------------------------ *)
\* Firestore batches can handle up to 500 operations.
batchSize == 500

needsPublic(e) == e.isPublic = None
needsDateTime(e) == isString(e.dateTime)

\* new Date(string) as a Timestamp.
Parsed(dateTime) == IF dateTime = "str_past" THEN "past" ELSE "future"

\* The documents of a collection snapshot, in document order.
RECURSIVE ById(_)
ById(docs) ==
  IF docs = {} THEN <<>>
  ELSE LET first == CHOOSE x \in docs : \A y \in docs : x.eventId <= y.eventId
       IN <<first>> \o ById(docs \ {first})

\* snapshot.docs.filter(...)
ToMigrate(needing) == ById(needing)

\* batch.commit(): every update of the batch, or none of them.
Committed(docs, batch) ==
  {IF \E u \in batch : u.eventId = e.eventId
     THEN LET u == CHOOSE x \in batch : x.eventId = e.eventId
          IN [e EXCEPT !.isPublic = IF u.isPublic THEN Some(TRUE) ELSE @,
                       !.dateTime = IF u.dateTime = None THEN @ ELSE The(u.dateTime)]
     ELSE e : e \in docs}

NewBatch(docs) ==
  [docs |-> docs, batch |-> {}, used |-> FALSE, ops |-> 0, successCount |-> 0,
   failedCount |-> 0, thrown |-> FALSE]

\* lib/event-migration.ts, one turn of the loop.  failing: the turns whose
\* batch.commit() rejects.  A batch whose commit() was called takes no more
\* updates: batch.update throws into the same catch block.
MigrateTurn(st, e, last, size, failing, i) ==
  IF st.thrown THEN st
  ELSE IF st.used THEN [st EXCEPT !.failedCount = @ + 1]
  ELSE LET added == [st EXCEPT !.batch = @ \cup {[eventId |-> e.eventId, isPublic |-> TRUE,
                                                   dateTime |-> None]},
                               !.ops = @ + 1, !.successCount = @ + 1]
       IN IF added.ops = size \/ last
            THEN IF i \in failing
                   THEN [added EXCEPT !.used = TRUE, !.failedCount = @ + 1]
                   ELSE IF last
                          THEN [added EXCEPT !.docs = Committed(@, added.batch), !.used = TRUE]
                          ELSE [added EXCEPT !.docs = Committed(@, added.batch),
                                             !.batch = {}, !.ops = 0]
            ELSE added

\* lib/firebase.ts, one turn of the loop.  A rejected commit leaves the
\* function; a document with an invalid dateTime string is skipped by
\* continue, past the commit of the turn.
MigrateTurn_v2(st, e, last, size, failing, i) ==
  IF st.thrown THEN st
  ELSE IF e.dateTime = "str_invalid" THEN [st EXCEPT !.failedCount = @ + 1]
  ELSE LET updates == [eventId |-> e.eventId, isPublic |-> needsPublic(e),
                       dateTime |-> IF needsDateTime(e) THEN Some(Parsed(e.dateTime))
                                    ELSE None]
           added == [st EXCEPT !.batch = @ \cup {updates}, !.ops = @ + 1,
                               !.successCount = @ + 1]
       IN IF added.ops = size \/ last
            THEN IF i \in failing
                   THEN [added EXCEPT !.thrown = TRUE]
                   ELSE IF last
                          THEN [added EXCEPT !.docs = Committed(@, added.batch)]
                          ELSE [added EXCEPT !.docs = Committed(@, added.batch),
                                             !.batch = {}, !.ops = 0]
            ELSE added

\* for (let i = 0; i < eventsToMigrate.length; i++) of either file.
RECURSIVE MigrateLoop(_, _, _, _, _, _)
MigrateLoop(st, todo, i, size, failing, v2) ==
  IF i > Len(todo) THEN st
  ELSE MigrateLoop(IF v2 THEN MigrateTurn_v2(st, todo[i], i = Len(todo), size, failing, i)
                   ELSE MigrateTurn(st, todo[i], i = Len(todo), size, failing, i),
                   todo, i + 1, size, failing, v2)

\* The ApiResponse<MigrationResult> of handleAsync.
NoMigration ==
  [source |-> "none", success |-> FALSE, totalProcessed |-> 0, successCount |-> 0,
   failedCount |-> 0]

\* The ApiResponse<MigrationResult> of handleAsync: the result, or an error
\* response without data when the function threw.
MigrationResponse(source, n, st) ==
  IF st.thrown THEN [NoMigration EXCEPT !.source = source]
  ELSE [source |-> source, success |-> TRUE, totalProcessed |-> n,
        successCount |-> st.successCount, failedCount |-> st.failedCount]

\* The first getDocs rejects (turn 0 of failing): the function throws at once.
Started(docs, failing) == [NewBatch(docs) EXCEPT !.thrown = 0 \in failing]

\* lib/event-migration.ts
getEventsMigrationCount(docs) == Cardinality({e \in docs : needsPublic(e)})

verifyEventsMigration(docs) ==
  LET remaining == Cardinality({e \in docs : needsPublic(e)})
  IN [allMigrated |-> remaining = 0, remaining |-> remaining]

migrateEventsToPublic(failing) ==
  LET todo == ToMigrate({e \in events : needsPublic(e)})
      st == MigrateLoop(Started(events, failing), todo, 1, batchSize, failing, FALSE)
  IN /\ events' = st.docs
     /\ migration' = MigrationResponse("lib/event-migration.ts", Len(todo), st)
     /\ UNCHANGED fetched

\* lib/firebase.ts
needsMigration_v2(e) == needsPublic(e) \/ needsDateTime(e)

getEventsMigrationCount_v2(docs) == Cardinality({e \in docs : needsMigration_v2(e)})

verifyEventsMigration_v2(docs) ==
  LET remaining == Cardinality({e \in docs : needsMigration_v2(e)})
  IN [allMigrated |-> remaining = 0, remaining |-> remaining]

migrateEventsToPublic_v2(failing) ==
  LET todo == ToMigrate({e \in events : needsMigration_v2(e)})
      st == MigrateLoop(Started(events, failing), todo, 1, batchSize, failing, TRUE)
  IN /\ events' = st.docs
     /\ migration' = MigrationResponse("lib/firebase.ts", Len(todo), st)
     /\ UNCHANGED fetched

(* ------------------- date-utils: the derived event status ---------------- *)
\* Strings are sequences of one-character strings.
Digits == <<"0", "1", "2", "3", "4", "5", "6", "7", "8", "9">>

UpperCase ==
  <<"A", "B", "C", "D", "E", "F", "G", "H", "I", "J", "K", "L", "M",
    "N", "O", "P", "Q", "R", "S", "T", "U", "V", "W", "X", "Y", "Z">>

LowerCase ==
  <<"a", "b", "c", "d", "e", "f", "g", "h", "i", "j", "k", "l", "m",
    "n", "o", "p", "q", "r", "s", "t", "u", "v", "w", "x", "y", "z">>

isDigit(c) == \E i \in 1..Len(Digits) : Digits[i] = c

digitValue(c) == (CHOOSE i \in 1..Len(Digits) : Digits[i] = c) - 1

\* String.prototype.toLowerCase
toLowerCase(s) ==
  [i \in 1..Len(s) |->
     IF \E k \in 1..Len(UpperCase) : UpperCase[k] = s[i]
       THEN LowerCase[CHOOSE k \in 1..Len(UpperCase) : UpperCase[k] = s[i]]
       ELSE s[i]]

\* String.prototype.trim
trim(s) ==
  LET inked == {i \in 1..Len(s) : s[i] # " "} IN
  IF inked = {} THEN <<>>
  ELSE SubSeq(s, CHOOSE i \in inked : \A j \in inked : i <= j,
                 CHOOSE i \in inked : \A j \in inked : i >= j)

\* String.prototype.includes
includes(s, sub) ==
  \E i \in 0..(Len(s) - Len(sub)) : SubSeq(s, i + 1, i + Len(sub)) = sub

\* lower.replace(/[^0-9]/g, '')
digitsOnly(s) == SelectSeq(s, isDigit)

\* The number a string of digits denotes.
RECURSIVE decimal(_)
decimal(ds) ==
  IF ds = <<>> THEN 0
  ELSE 10 * decimal(SubSeq(ds, 1, Len(ds) - 1)) + digitValue(ds[Len(ds)])

\* parseInt(digits, 10) of a string of digits: NaN (None) for the empty one.
parseInt(ds) == IF ds = <<>> THEN None ELSE Some(decimal(ds))

\* lower.match(/[0-9.]+/): the first unbroken run of digits and dots, null
\* (None) when there is none.
matchNumber(s) ==
  LET inRun(i) == isDigit(s[i]) \/ s[i] = "."
      starts == {i \in 1..Len(s) : inRun(i)} IN
  IF starts = {} THEN None
  ELSE LET first == CHOOSE i \in starts : \A j \in starts : i <= j
           last == CHOOSE k \in first..Len(s) :
                     /\ \A j \in first..k : inRun(j)
                     /\ (k = Len(s) \/ ~inRun(k + 1)) IN
       Some(SubSeq(s, first, last))

\* parseFloat of a run of digits and dots: the digits up to the second dot,
\* as a fraction num / den; NaN (None) when that prefix has no digit.
parseFloat(m) ==
  LET dots == {i \in 1..Len(m) : m[i] = "."}
      firstDot == IF dots = {} THEN Len(m) + 1
                  ELSE CHOOSE i \in dots : \A j \in dots : i <= j
      later == {i \in dots : i > firstDot}
      stop == IF later = {} THEN Len(m) + 1
              ELSE CHOOSE i \in later : \A j \in later : i <= j
      whole == SubSeq(m, 1, firstDot - 1)
      fraction == SubSeq(m, firstDot + 1, stop - 1) IN
  IF whole = <<>> /\ fraction = <<>> THEN None
  ELSE Some([num |-> decimal(whole \o fraction),
             den |-> decimal(<<"1">> \o [i \in 1..Len(fraction) |-> "0"])])

\* parseDurationToMillis(durationStr); null, undefined and "" are falsy.
parseDurationToMillis(durationStr) ==
  IF durationStr = None \/ durationStr = Some(<<>>) THEN 60 * 60 * 1000
  ELSE LET lower == trim(toLowerCase(The(durationStr))) IN
       IF includes(lower, <<"m", "i", "n">>)
         THEN LET minutes == parseInt(digitsOnly(lower)) IN
              (IF minutes = None THEN 60 ELSE The(minutes)) * 60 * 1000
       ELSE IF includes(lower, <<"h", "o", "u", "r">>) \/ includes(lower, <<"h", "r">>)
         THEN LET matches == matchNumber(lower)
                  hours == IF matches # None THEN parseFloat(The(matches))
                           ELSE Some([num |-> 1, den |-> 1]) IN
              IF hours = None THEN 1 * 60 * 60 * 1000
              ELSE (The(hours).num * 60 * 60 * 1000) \div The(hours).den
       ELSE 60 * 60 * 1000

\* timestampToMillis(timestamp)
timestampToMillis(timestamp) == IF timestamp = None THEN 0 ELSE toMillis(The(timestamp))

\* calculateEventStatus with the end of the event left out of 'Active'.
calculateEventStatusEndExclusive(eventDateTime, durationStr, now) ==
  IF eventDateTime = None THEN "Upcoming"
  ELSE LET start == timestampToMillis(eventDateTime)
           end == start + parseDurationToMillis(durationStr) IN
       IF now < start THEN "Upcoming"
       ELSE IF now >= start /\ now < end THEN "Active"
       ELSE "Past"

\* calculateEventStatus(eventDateTime, durationStr), with now = Date.now()
calculateEventStatus(eventDateTime, durationStr, now) ==
  IF eventDateTime = None THEN "Upcoming"
  ELSE LET start == timestampToMillis(eventDateTime)
           duration == parseDurationToMillis(durationStr)
           end == start + duration IN
       IF now < start THEN "Upcoming"
       ELSE IF now >= start /\ now <= end THEN "Active"
       ELSE "Past"

\* The duration strings of the events: what the admin typed into the form
\* ("90 mins" is the form's default), or nothing.
DurationStrings ==
  { <<"9", "0", " ", "m", "i", "n">>,
    <<"9", "0", " ", "m", "i", "n", "s">>,
    <<"4", "5", " ", "M", "i", "n", "u", "t", "e", "s">>,
    <<" ", "3", "0", " ", "M", "I", "N", " ">>,
    <<"0", " ", "m", "i", "n">>,
    <<"m", "i", "n">>,
    <<"1", ".", "5", " ", "h", "o", "u", "r", "s">>,
    <<"2", " ", "H", "R">>,
    <<"h", "r", ".">>,
    <<"9", "0">>,
    <<"s", "o", "o", "n">>,
    <<>> }

Durations == {None} \cup {Some(s) : s \in DurationStrings}

\* The dateTime of the events: missing, or a Timestamp.
DateTimeValues ==
  {None} \cup {Some([seconds |-> s, nanoseconds |-> n]) : s \in {0, 7}, n \in {0, 999999999}}

\* The instants at which the events page renders: around the start and the
\* end of every event.
Instants ==
  {t \in {timestampToMillis(dt) + d + e :
            dt \in DateTimeValues,
            d \in {0} \cup {parseDurationToMillis(s) : s \in Durations},
            e \in {0 - 1, 0, 1}} : t >= 0}

NoStatus == None

\* Date.now() moves on.
tick(t) ==
  /\ t > clock
  /\ clock' = t
  /\ UNCHANGED <<shownEvent, dynamicStatus>>

\* EventsPage.processedEvents: the status shown for an event that is not
\* Cancelled.
processedEvents ==
  /\ dynamicStatus' =
       Some([status |-> calculateEventStatus(shownEvent.dateTime, shownEvent.duration, clock),
             now |-> clock])
  /\ UNCHANGED <<clock, shownEvent>>

(* ---------------------- auth-utils: redirectManager --------------------- *)
\* URLs and paths are strings of characters, as in the date-utils part.  The
\* printable ASCII characters, U+0020 to U+007E, in code order; the double
\* quote, the backslash and the backtick are written by their code points.
Ascii ==
  <<" ", "!", "U+0022", "#", "$", "%", "&", "'", "(", ")", "*", "+", ",", "-", ".", "/">>
    \o Digits \o <<":", ";", "<", "=", ">", "?", "@">> \o UpperCase
    \o <<"[", "U+005C", "]", "^", "_", "U+0060">> \o LowerCase \o <<"{", "|", "}", "~">>

\* One character outside ASCII, and U+FFFD, which decoders put in the place
\* of bytes that are no UTF-8.
EAcute == "U+00E9"
Replacement == "U+FFFD"

\* String.prototype.codePointAt(0) of a character.
codePointAt(c) ==
  IF c = EAcute THEN 233
  ELSE IF c = Replacement THEN 65533
  ELSE 31 + (CHOOSE i \in 1..Len(Ascii) : Ascii[i] = c)

\* String.fromCodePoint
fromCodePoint(n) ==
  IF n >= 32 /\ n <= 126 THEN Ascii[n - 31]
  ELSE IF n = 233 THEN EAcute
  ELSE Replacement

\* UTF-8 encode: the bytes of a string.
RECURSIVE utf8Encode(_)
utf8Encode(str) ==
  IF str = <<>> THEN <<>>
  ELSE LET cp == codePointAt(Head(str)) IN
       (IF cp < 128 THEN <<cp>>
        ELSE IF cp < 2048 THEN <<192 + (cp \div 64), 128 + (cp % 64)>>
        ELSE <<224 + (cp \div 4096), 128 + ((cp \div 64) % 64), 128 + (cp % 64)>>)
         \o utf8Encode(Tail(str))

isContinuation(bytes, i) == i <= Len(bytes) /\ bytes[i] >= 128 /\ bytes[i] < 192

\* UTF-8 decode without BOM: U+FFFD for a byte that starts no sequence.
RECURSIVE utf8Decode(_)
utf8Decode(bytes) ==
  IF bytes = <<>> THEN <<>>
  ELSE LET b == Head(bytes) IN
       IF b < 128 THEN <<fromCodePoint(b)>> \o utf8Decode(Tail(bytes))
       ELSE IF b >= 194 /\ b < 224 /\ isContinuation(bytes, 2)
         THEN <<fromCodePoint((b - 192) * 64 + (bytes[2] - 128))>>
                \o utf8Decode(SubSeq(bytes, 3, Len(bytes)))
       ELSE IF b >= 224 /\ b < 240 /\ isContinuation(bytes, 2) /\ isContinuation(bytes, 3)
         THEN <<fromCodePoint((b - 224) * 4096 + (bytes[2] - 128) * 64 + (bytes[3] - 128))>>
                \o utf8Decode(SubSeq(bytes, 4, Len(bytes)))
       ELSE <<Replacement>> \o utf8Decode(Tail(bytes))

HexDigits == Digits \o <<"A", "B", "C", "D", "E", "F">>

isHexDigit(c) == \E i \in 1..Len(HexDigits) : HexDigits[i] = c \/ toLowerCase(HexDigits)[i] = c

hexValue(c) ==
  (CHOOSE i \in 1..Len(HexDigits) : HexDigits[i] = c \/ toLowerCase(HexDigits)[i] = c) - 1

\* application/x-www-form-urlencoded, the byte serializer: the bytes of
\* *-._ and of the ASCII letters and digits as they are, 0x20 as '+',
\* every other byte as %XX.
isUrlencodedSafe(byte) ==
  \/ byte \in {42, 45, 46, 95}
  \/ byte >= 48 /\ byte <= 57
  \/ byte >= 65 /\ byte <= 90
  \/ byte >= 97 /\ byte <= 122

RECURSIVE urlencodedByteSerialize(_)
urlencodedByteSerialize(bytes) ==
  IF bytes = <<>> THEN <<>>
  ELSE LET b == Head(bytes) IN
       (IF b = 32 THEN <<"+">>
        ELSE IF isUrlencodedSafe(b) THEN <<fromCodePoint(b)>>
        ELSE <<"%", HexDigits[(b \div 16) + 1], HexDigits[(b % 16) + 1]>>)
         \o urlencodedByteSerialize(Tail(bytes))

urlencodedSerializeString(str) == urlencodedByteSerialize(utf8Encode(str))

\* The serializer of a list of name-value pairs: name=value joined by '&'.
RECURSIVE urlencodedSerialize(_)
urlencodedSerialize(list) ==
  IF list = <<>> THEN <<>>
  ELSE urlencodedSerializeString(list[1].name) \o <<"=">>
         \o urlencodedSerializeString(list[1].value)
         \o (IF Len(list) = 1 THEN <<>> ELSE <<"&">> \o urlencodedSerialize(Tail(list)))

\* Percent-decode: %XX with two hex digits is the byte, any other character
\* stands for its own bytes.
RECURSIVE percentDecode(_)
percentDecode(str) ==
  IF str = <<>> THEN <<>>
  ELSE IF str[1] = "%" /\ Len(str) >= 3 /\ isHexDigit(str[2]) /\ isHexDigit(str[3])
    THEN <<16 * hexValue(str[2]) + hexValue(str[3])>>
           \o percentDecode(SubSeq(str, 4, Len(str)))
  ELSE utf8Encode(<<str[1]>>) \o percentDecode(Tail(str))

\* The parts of a string between the occurrences of a separator.
RECURSIVE split(_, _)
split(str, sep) ==
  LET at == {i \in 1..Len(str) : str[i] = sep} IN
  IF at = {} THEN <<str>>
  ELSE LET first == CHOOSE i \in at : \A j \in at : i <= j IN
       <<SubSeq(str, 1, first - 1)>> \o split(SubSeq(str, first + 1, Len(str)), sep)

\* '+' as a space, then percent-decode, then UTF-8 decode.
urlencodedDecodeString(str) ==
  utf8Decode(percentDecode([i \in 1..Len(str) |-> IF str[i] = "+" THEN " " ELSE str[i]]))

\* The application/x-www-form-urlencoded parser: the non-empty parts between
\* '&', each cut at its first '='.
RECURSIVE urlencodedParseParts(_)
urlencodedParseParts(parts) ==
  IF parts = <<>> THEN <<>>
  ELSE LET part == Head(parts)
           eq == {i \in 1..Len(part) : part[i] = "="}
           cut == IF eq = {} THEN Len(part) + 1 ELSE CHOOSE i \in eq : \A j \in eq : i <= j IN
       (IF part = <<>> THEN <<>>
        ELSE <<[name |-> urlencodedDecodeString(SubSeq(part, 1, cut - 1)),
                value |-> urlencodedDecodeString(SubSeq(part, cut + 1, Len(part)))]>>)
         \o urlencodedParseParts(Tail(parts))

\* new URLSearchParams(init) of a string: a leading '?' is dropped.
URLSearchParams(init) ==
  urlencodedParseParts(split(IF init # <<>> /\ init[1] = "?" THEN Tail(init) ELSE init, "&"))

\* URLSearchParams.get: the value of the first pair with the name, or null.
searchParamsGet(list, name) ==
  LET at == {i \in 1..Len(list) : list[i].name = name} IN
  IF at = {} THEN None ELSE Some(list[CHOOSE i \in at : \A j \in at : i <= j].value)

\* URLSearchParams.set on a list without the name: the pair is appended.
searchParamsSet(list, name, value) == list \o <<[name |-> name, value |-> value]>>

\* location.search of a relative URL: from the first '?' to the fragment,
\* empty when the query is.
search(url) ==
  LET hash == {i \in 1..Len(url) : url[i] = "#"}
      end == IF hash = {} THEN Len(url) ELSE (CHOOSE i \in hash : \A j \in hash : i <= j) - 1
      marks == {i \in 1..end : url[i] = "?"} IN
  IF marks = {} THEN <<>>
  ELSE LET first == CHOOSE i \in marks : \A j \in marks : i <= j IN
       IF first = end THEN <<>> ELSE SubSeq(url, first, end)

\* useSearchParams() on the page a URL leads to.
useSearchParams(url) == URLSearchParams(search(url))

PARAM_KEY == <<"r", "e", "t", "u", "r", "n", "U", "r", "l">>
LoginPath == <<"/", "l", "o", "g", "i", "n">>
DashboardPath == <<"/", "d", "a", "s", "h", "b", "o", "a", "r", "d">>

\* redirectManager.getReturnUrl(searchParams): null and "" are falsy.
redirectManager_getReturnUrl(searchParams) ==
  LET value == searchParamsGet(searchParams, PARAM_KEY) IN
  IF value = None \/ value = Some(<<>>) THEN DashboardPath ELSE The(value)

\* buildLoginUrl with the return path appended as it is.
buildLoginUrlUnencoded(returnPath) ==
  IF returnPath = None \/ returnPath = Some(<<>>) THEN LoginPath
  ELSE LoginPath \o <<"?">> \o PARAM_KEY \o <<"=">> \o The(returnPath)

\* redirectManager.buildLoginUrl(returnUrl?), returnUrl as returnPath: undefined and "" are falsy;
\* url.pathname + url.search of new URL("/login", origin) after
\* url.searchParams.set.
redirectManager_buildLoginUrl(returnPath) ==
  IF returnPath = None \/ returnPath = Some(<<>>) THEN LoginPath
  ELSE LET query == urlencodedSerialize(searchParamsSet(<<>>, PARAM_KEY, The(returnPath))) IN
       LoginPath \o (IF query = <<>> THEN <<>> ELSE <<"?">> \o query)

\* The characters of the return paths.
PathChars == {"/", "a", "2", "F", "%", "+", " ", "&", "=", "?", "#", EAcute}

RECURSIVE StringsUpTo(_)
StringsUpTo(n) ==
  IF n = 0 THEN {<<>>}
  ELSE LET shorter == StringsUpTo(n - 1) IN
       shorter \cup {Append(str, c) : str \in {x \in shorter : Len(x) = n - 1}, c \in PathChars}

\* The paths a protected page is visited under.
ReturnPaths == StringsUpTo(MaxPathLen)

\* Login URLs that are typed or linked rather than built.
TypedLoginUrls ==
  {LoginPath, LoginPath \o <<"?">>, LoginPath \o <<"?">> \o PARAM_KEY \o <<"=">>,
   LoginPath \o <<"?">> \o PARAM_KEY, LoginPath \o <<"?", "a", "=", "a">>}

NoRedirect == [by |-> "none", returnUrl |-> None, loginUrl |-> None, back |-> None]

\* ProtectedPageExample's effect for a signed-out visitor:
\* router.push(redirectManager.buildLoginUrl(currentPath)); a caller may
\* also pass nothing.
ProtectedPageExample_effect(returnPath) ==
  /\ redirect.by = "none"
  /\ redirect' = [redirect EXCEPT !.by = "buildLoginUrl", !.returnUrl = returnPath,
                                  !.loginUrl = Some(redirectManager_buildLoginUrl(returnPath))]

\* The login page opened under a URL that no buildLoginUrl made.
openLogin(url) ==
  /\ redirect.by = "none"
  /\ redirect' = [redirect EXCEPT !.by = "typed", !.loginUrl = Some(url)]

\* LoginForm: returnUrl = redirectManager.getReturnUrl(searchParams), the
\* target of router.push after the sign-in.
LoginForm_getReturnUrl ==
  /\ redirect.loginUrl # None
  /\ redirect.back = None
  /\ redirect' =
       [redirect EXCEPT !.back =
          Some(redirectManager_getReturnUrl(useSearchParams(The(redirect.loginUrl))))]

(* ---------------------------- specifications ---------------------------- *)
ReturnUrls == {None, Some(""), Some("/dashboard"), Some("/teams/invite/123")}

\* Each part's actions leave the other parts' variables alone.
OnlyReg ==
  UNCHANGED <<authVars, pageVars, toasts, eventVars, statusVars, editPage, redirect>>
OnlyAuth ==
  UNCHANGED <<regVars, toasts, eventVars, statusVars, editPage, redirect>>
OnlyErrors ==
  UNCHANGED <<regVars, authVars, pageVars, eventVars, statusVars, editPage, redirect>>
OnlyEvents ==
  UNCHANGED <<regVars, authVars, pageVars, toasts, statusVars, editPage, redirect>>
OnlyStatus ==
  UNCHANGED <<regVars, authVars, pageVars, toasts, eventVars, editPage, redirect>>
OnlyEdit == UNCHANGED <<authVars, pageVars, toasts, eventVars, statusVars, redirect>>
OnlyRedirect ==
  UNCHANGED <<regVars, authVars, pageVars, toasts, eventVars, statusVars, editPage>>

\* An event that starts 7 s after the clock's origin.
StartsLater == Some([seconds |-> 7, nanoseconds |-> 0])

RegInit ==
  /\ event \in [isTeamRegistration : BOOLEAN, slotsAvailable : 1..MaxSlots,
                dateTime : {StartsLater}, status : {"Upcoming"}]
  /\ ids = [reg |-> 1, team |-> 1]
  /\ registrations = {}
  /\ teams = {}
  /\ notifications = {}
  /\ userRegistration = [p \in Players |-> None]
  /\ pc = [p \in Players |-> "idle"]
  /\ local = [p \in Players |-> NoLocal]
  /\ partnerDialog = [p \in Players |-> NoDialog]

\* The page load: nothing rendered but the spinner, the persisted auth state
\* about to be reported to onAuthStateChanged.
AuthInit ==
  /\ authUser \in {None} \cup {Some(u) : u \in Users}
  /\ userDocs \in [Users -> DocValues]
  /\ authEvents = <<authUser>>
  /\ authSeq = 1
  /\ callbacks = {}
  /\ listeners = {}
  /\ unsubscribeUserData = None
  /\ user = None
  /\ userData = None
  /\ loading = TRUE
  /\ committed = [user |-> None, userData |-> None, loading |-> TRUE]
  /\ view = "spinner"
  /\ nav = [c \in Components |-> NoNav]
  /\ lastNav = "none"
  /\ formPc = "idle"

RegisterStep ==
  \E p \in Players :
    \/ RegistrationsSnapshot(p) /\ OnlyReg
    \/ handleRegister_readConfirmed(p) /\ OnlyReg
    \/ handleRegister_readWaitlist(p) /\ OnlyReg
    \/ handleRegister_commit(p) /\ OnlyReg
    \/ handleRegisterWithPartner_read(p) /\ OnlyReg
    \/ handleRegisterWithPartner_commit(p) /\ OnlyReg

PlayerStep ==
  \E p \in Players :
    \/ handleWithdraw(p) /\ OnlyReg
    \/ handleRegisterSolo(p) /\ OnlyReg
    \/ handleWithdrawTeam_start(p) /\ OnlyReg
    \/ handleWithdrawTeam_notify(p) /\ OnlyReg
    \/ handleWithdrawTeam_delete(p) /\ OnlyReg
    \/ sendTeamRequest_team(p) /\ OnlyReg
    \/ sendTeamRequest_update(p) /\ OnlyReg
    \/ sendTeamRequest_notify(p) /\ OnlyReg
    \/ handlePartnerInviteClick(p) /\ OnlyReg
    \/ handleAccept_team(p) /\ OnlyReg
    \/ handleAccept_reg(p) /\ OnlyReg
    \/ handleAccept_add(p) /\ OnlyReg
    \/ handleAccept_notify(p) /\ OnlyReg
    \/ handleDecline_reg(p) /\ OnlyReg
    \/ handleDecline_team(p) /\ OnlyReg
    \/ handleDecline_notify(p) /\ OnlyReg

RegIds == 1..(IF MaxRegs > MaxTeamRegs THEN MaxRegs ELSE MaxTeamRegs)

AdminStep ==
  \E id \in RegIds :
    \/ promoteFromWaitlist(id) /\ OnlyReg
    \/ removeRegistration(id) /\ OnlyReg

\* The players' handlers and the listener of a team event.
TeamPlayersStep ==
  \/ \E p \in Players : RegistrationsSnapshot(p) /\ OnlyReg
  \/ \E p \in Players : handleRegisterWithPartner_read(p) /\ OnlyReg
  \/ \E p \in Players : handleRegisterWithPartner_commit(p) /\ OnlyReg
  \/ \E p \in Players : handleRegisterSolo(p) /\ OnlyReg
  \/ \E p \in Players : handleWithdrawTeam_start(p) /\ OnlyReg
  \/ \E p \in Players : handleWithdrawTeam_notify(p) /\ OnlyReg
  \/ \E p \in Players : handleWithdrawTeam_delete(p) /\ OnlyReg
  \/ \E p \in Players : sendTeamRequest_team(p) /\ OnlyReg
  \/ \E p \in Players : sendTeamRequest_update(p) /\ OnlyReg
  \/ \E p \in Players : sendTeamRequest_notify(p) /\ OnlyReg
  \/ \E p \in Players : handlePartnerInviteClick(p) /\ OnlyReg
  \/ \E p \in Players : handleAccept_team(p) /\ OnlyReg
  \/ \E p \in Players : handleAccept_reg(p) /\ OnlyReg
  \/ \E p \in Players : handleAccept_add(p) /\ OnlyReg
  \/ \E p \in Players : handleAccept_notify(p) /\ OnlyReg
  \/ \E p \in Players : handleDecline_reg(p) /\ OnlyReg
  \/ \E p \in Players : handleDecline_team(p) /\ OnlyReg
  \/ \E p \in Players : handleDecline_notify(p) /\ OnlyReg

\* The same with the admin's actions.
TeamsStep == TeamPlayersStep \/ AdminStep

\* Nobody is inside a handler.
Quiet == \A q \in Players : pc[q] = "idle"

\* The handlers of a single-player event run one after the other: a handler,
\* a listener or an admin action starts only when no handler is running.
SequentialStep ==
  \/ \E p \in Players : RegistrationsSnapshot(p) /\ Quiet /\ OnlyReg
  \/ \E p \in Players : handleRegister_readConfirmed(p) /\ Quiet /\ OnlyReg
  \/ \E p \in Players : handleRegister_readWaitlist(p) /\ OnlyReg
  \/ \E p \in Players : handleRegister_commit(p) /\ OnlyReg
  \/ \E p \in Players : handleWithdraw(p) /\ Quiet /\ OnlyReg
  \/ \E id \in RegIds : promoteFromWaitlist(id) /\ Quiet /\ OnlyReg
  \/ \E id \in RegIds : removeRegistration(id) /\ Quiet /\ OnlyReg

\* The instants around the start of the event.
StartInstants == {toMillis(The(StartsLater)) + e : e \in {0 - 1, 0, 1}}

\* The three registration handlers and the listener while the clock runs.
\* A handler lasts a few round trips: the clock is taken not to pass the
\* start of the event while one is running.
DatedStep ==
  \/ \E p \in Players : RegistrationsSnapshot(p) /\ OnlyReg
  \/ \E p \in Players : handleRegister_readConfirmed(p) /\ OnlyReg
  \/ \E p \in Players : handleRegister_readWaitlist(p) /\ OnlyReg
  \/ \E p \in Players : handleRegister_commit(p) /\ OnlyReg
  \/ \E p \in Players : handleRegisterWithPartner_read(p) /\ OnlyReg
  \/ \E p \in Players : handleRegisterWithPartner_commit(p) /\ OnlyReg
  \/ \E p \in Players : handleRegisterSolo(p) /\ OnlyReg
  \/ \E t \in StartInstants : tick(t) /\ Quiet /\ OnlyStatus

\* The players registering while the admin cancels the event.
CancelStep ==
  \/ \E p \in Players : RegistrationsSnapshot(p) /\ OnlyReg
  \/ \E p \in Players : handleRegister_readConfirmed(p) /\ OnlyReg
  \/ \E p \in Players : handleRegister_readWaitlist(p) /\ OnlyReg
  \/ \E p \in Players : handleRegister_commit(p) /\ OnlyReg
  \/ \E p \in Players : handleRegisterWithPartner_read(p) /\ OnlyReg
  \/ \E p \in Players : handleRegisterWithPartner_commit(p) /\ OnlyReg
  \/ \E p \in Players : handleRegisterSolo(p) /\ OnlyReg
  \/ handleDelete_start /\ OnlyEdit
  \/ \E ok \in BOOLEAN : handleDelete_updateDoc(ok) /\ OnlyEdit

\* A protected page sending a visitor to the login page, and the login form
\* reading the way back.
RedirectStep ==
  \/ \E returnPath \in {None} \cup {Some(u) : u \in ReturnPaths} :
       ProtectedPageExample_effect(returnPath) /\ OnlyRedirect
  \/ \E url \in TypedLoginUrls : openLogin(url) /\ OnlyRedirect
  \/ LoginForm_getReturnUrl /\ OnlyRedirect

\* The auth callback, the userData listeners and React.
AuthStep ==
  \/ onAuthStateChanged_start /\ OnlyAuth
  \/ \E c \in callbacks : onAuthStateChanged_getDoc(c) /\ OnlyAuth
  \/ \E c \in callbacks : onAuthStateChanged_create(c) /\ OnlyAuth
  \/ \E i \in 1..MaxAuthEvents : UserDataSnapshotOf(i) /\ OnlyAuth
  \/ ReactCommit /\ OnlyAuth

\* Sign-ins and sign-outs reported to a mounted admin page.
SessionStep ==
  \/ \E u \in Users : signIn(u) /\ OnlyAuth
  \/ logout /\ OnlyAuth

\* Failures of Firestore reads and writes by the admin's players page.
EnvStep ==
  \/ \E c \in callbacks : onAuthStateChanged_catch(c) /\ OnlyAuth
  \/ \E l \in listeners : UserDataListenerError(l) /\ OnlyAuth
  \/ \E u \in Users : \E role \in {"player", "admin"} : updatePlayer(u, role) /\ OnlyAuth
  \/ \E u \in Users : deletePlayer(u) /\ OnlyAuth

LoginStep ==
  \/ \E u \in Users : onSubmit_signIn(u) /\ OnlyAuth
  \/ onSubmit_push /\ OnlyAuth

\* Sign-in attempts that fail.
ErrorsStep == \E code \in ErrorCodes : onSubmit_failed(code) /\ OnlyErrors

FailingTurns == SUBSET (0..MaxEvents)

\* The events pages, the admin's event form and the migration button.
EventsStep ==
  \/ loadData /\ OnlyEvents
  \/ \E options \in Options : fetchPublicEvents(options) /\ OnlyEvents
  \/ \E options \in Options : fetchAllEventsForAdmin(options) /\ OnlyEvents
  \/ \E status \in Statuses : \E admin \in BOOLEAN :
       fetchEventsByStatus(status, admin) /\ OnlyEvents
  \/ \E id \in EventIds : \E public \in BOOLEAN : \E dateTime \in {"past", "future"} :
       createEvent(id, public, dateTime) /\ OnlyEvents
  \/ \E failing \in FailingTurns : migrateEventsToPublic(failing) /\ OnlyEvents
  \/ \E failing \in FailingTurns : migrateEventsToPublic_v2(failing) /\ OnlyEvents

\* The events page re-rendering as time passes.
StatusStep ==
  \/ \E t \in Instants : tick(t) /\ OnlyStatus
  \/ processedEvents /\ OnlyStatus

\* No auth change: the page shown is mounted and rendered for good.
AuthIdle(mounted) ==
  /\ authUser = None
  /\ userDocs = [u \in Users |-> "missing"]
  /\ authEvents = <<>>
  /\ authSeq = 0
  /\ callbacks = {}
  /\ listeners = {}
  /\ unsubscribeUserData = None
  /\ user = None
  /\ userData = None
  /\ loading = FALSE
  /\ page = mounted
  /\ committed = [user |-> None, userData |-> None, loading |-> FALSE]
  /\ view = IF mounted = "login" THEN "form" ELSE mounted
  /\ nav = [c \in Components |-> NoNav]
  /\ lastNav = "none"
  /\ returnUrl = None
  /\ formPc = "idle"

\* No registration activity: an event with nothing registered.
RegIdle ==
  /\ RegInit
  /\ event = [isTeamRegistration |-> FALSE, slotsAvailable |-> 1,
              dateTime |-> StartsLater, status |-> "Upcoming"]

ErrorsIdle == toasts = <<>>

\* The events collection as the page load finds it: legacy documents
\* (isPublic missing, dateTime a string) next to current ones.
EventsInit ==
  /\ \E n \in 0..MaxEvents :
       \E fields \in [1..n -> [isPublic : {None, Some(TRUE), Some(FALSE)},
                               dateTime : DateTimes, status : {"Upcoming", "Cancelled"}]] :
         events = {[eventId |-> i, isPublic |-> fields[i].isPublic,
                    dateTime |-> fields[i].dateTime, status |-> fields[i].status] : i \in 1..n}
  /\ fetched = NoFetch
  /\ migration = NoMigration

EventsIdle ==
  /\ events = {}
  /\ fetched = NoFetch
  /\ migration = NoMigration

\* An event on the events page that has not been rendered yet.
StatusInit ==
  /\ clock \in Instants
  /\ shownEvent \in [dateTime : DateTimeValues, duration : Durations]
  /\ dynamicStatus = NoStatus

StatusIdle ==
  /\ clock = 0
  /\ shownEvent = [dateTime |-> None, duration |-> None]
  /\ dynamicStatus = NoStatus

\* The edit page with no handler running, and nobody redirected.
EditIdle == editPage = [saving |-> FALSE, toast |-> None]

RedirectIdle == redirect = NoRedirect

Init ==
  /\ RegInit /\ AuthIdle("event") /\ ErrorsIdle /\ EventsIdle /\ StatusIdle
  /\ EditIdle /\ RedirectIdle

InitAuth ==
  /\ RegIdle /\ AuthInit /\ page = "admin" /\ returnUrl = None /\ ErrorsIdle /\ EventsIdle
  /\ StatusIdle /\ EditIdle /\ RedirectIdle

InitLogin ==
  /\ RegIdle /\ AuthInit /\ page = "login" /\ authUser = None /\ returnUrl \in ReturnUrls
  /\ ErrorsIdle /\ EventsIdle /\ StatusIdle /\ EditIdle /\ RedirectIdle

InitErrors ==
  /\ RegIdle /\ AuthIdle("login") /\ ErrorsIdle /\ EventsIdle /\ StatusIdle
  /\ EditIdle /\ RedirectIdle

InitEvents ==
  /\ RegIdle /\ AuthIdle("events") /\ ErrorsIdle /\ EventsInit /\ StatusIdle
  /\ EditIdle /\ RedirectIdle

InitStatus ==
  /\ RegIdle /\ AuthIdle("events") /\ ErrorsIdle /\ EventsIdle /\ StatusInit
  /\ EditIdle /\ RedirectIdle

\* A single-player event with nothing registered.
InitSingle == Init /\ ~event.isTeamRegistration

\* A team event for which p3 has already registered as a single player
\* (handleRegisterSolo); the pages of the players have not loaded it yet.
InitTeams ==
  /\ event \in [isTeamRegistration : {TRUE}, slotsAvailable : 1..MaxSlots,
                dateTime : {StartsLater}, status : {"Upcoming"}]
  /\ ids = [reg |-> 1, team |-> 1]
  /\ registrations = {NewSoloRegistration(0, "p3")}
  /\ teams = {}
  /\ notifications = {}
  /\ userRegistration = [p \in Players |-> None]
  /\ pc = [p \in Players |-> "idle"]
  /\ local = [p \in Players |-> NoLocal]
  /\ partnerDialog = [p \in Players |-> NoDialog]
  /\ AuthIdle("event") /\ ErrorsIdle /\ EventsIdle /\ StatusIdle /\ EditIdle /\ RedirectIdle

\* An event with nothing registered, with or without a dateTime and with any
\* stored status, at a time before its start.
InitDated ==
  /\ event \in [isTeamRegistration : BOOLEAN, slotsAvailable : 1..MaxSlots,
                dateTime : {None, StartsLater},
                status : {"Upcoming", "Active", "Past", "Cancelled"}]
  /\ ids = [reg |-> 1, team |-> 1]
  /\ registrations = {}
  /\ teams = {}
  /\ notifications = {}
  /\ userRegistration = [p \in Players |-> None]
  /\ pc = [p \in Players |-> "idle"]
  /\ local = [p \in Players |-> NoLocal]
  /\ partnerDialog = [p \in Players |-> NoDialog]
  /\ AuthIdle("event") /\ ErrorsIdle /\ EventsIdle /\ StatusIdle /\ EditIdle /\ RedirectIdle

\* A visitor before any redirect.
InitRedirect ==
  /\ RegIdle /\ AuthIdle("login") /\ ErrorsIdle /\ EventsIdle /\ StatusIdle /\ EditIdle
  /\ RedirectIdle

Next == RegisterStep \/ PlayerStep \/ AdminStep

AuthNext == AuthStep \/ SessionStep

\* Every handler of the registration pages.
Spec == Init /\ [][Next]_vars

\* Only the two transactional registration handlers and the listener.
SpecRegister == Init /\ [][RegisterStep]_vars

\* Every handler of the registration pages, for a team event that already
\* has a single player.
SpecTeams == InitTeams /\ [][TeamsStep]_vars

\* The same without the admin.
SpecTeamPlayers == InitTeams /\ [][TeamPlayersStep]_vars

\* A single-player event whose registrations do not overlap in time.
SpecSequential == InitSingle /\ [][SequentialStep]_vars

\* A guarded admin page from its load on, across sign-ins and sign-outs.
SpecAuth == InitAuth /\ [][AuthNext]_vars

\* The same with failing reads, changing documents and the delivery of
\* callbacks, snapshots and commits that the event loop guarantees.
SpecAuthFair ==
  /\ InitAuth
  /\ [][AuthNext \/ EnvStep]_vars
  /\ WF_vars(onAuthStateChanged_start /\ OnlyAuth)
  /\ WF_vars(\E c \in callbacks : onAuthStateChanged_getDoc(c) /\ OnlyAuth)
  /\ WF_vars(\E c \in callbacks : onAuthStateChanged_create(c) /\ OnlyAuth)
  /\ \A i \in 1..MaxAuthEvents : WF_vars(UserDataSnapshotOf(i) /\ OnlyAuth)
  /\ WF_vars(ReactCommit /\ OnlyAuth)

\* The login page from its load to the end of a successful sign-in.
SpecLogin == InitLogin /\ [][AuthStep \/ LoginStep]_vars

\* The login form across sign-in attempts that fail.
SpecErrors == InitErrors /\ [][ErrorsStep]_vars

\* The events collection, its queries and its migration.
SpecEvents == InitEvents /\ [][EventsStep]_vars

\* The status derived for one event while the clock runs.
SpecStatus == InitStatus /\ [][StatusStep]_vars

\* Registering for an event before and after its start.
SpecDated == InitDated /\ [][DatedStep]_vars

\* The redirect to the login page and back.
SpecRedirect == InitRedirect /\ [][RedirectStep]_vars

\* Registrations and the admin's 'Cancel Event', with what the event loop
\* and Firestore guarantee: a started handler gets the answer of each of its
\* awaits, and the listeners are delivered.
SpecCancelFair ==
  /\ Init
  /\ [][CancelStep]_vars
  /\ \A p \in Players :
       /\ WF_vars(RegistrationsSnapshot(p) /\ OnlyReg)
       /\ WF_vars(handleRegister_readWaitlist(p) /\ OnlyReg)
       /\ WF_vars(handleRegister_commit(p) /\ OnlyReg)
       /\ WF_vars(handleRegisterWithPartner_commit(p) /\ OnlyReg)
  /\ WF_vars(\E ok \in BOOLEAN : handleDelete_updateDoc(ok) /\ OnlyEdit)

(* ============================== claims ================================ *)

\* C1: for the event, under any interleaving of concurrent handleRegister and
\* handleRegisterWithPartner attempts, the number of CONFIRMED registrations
\* never exceeds slotsAvailable.
C1_ConfirmedWithinCapacity ==
  ConfirmedCount(registrations) <= event.slotsAvailable

\* C2: promoteFromWaitlist moves a registration to CONFIRMED only when the
\* event has free capacity (CONFIRMED count < slotsAvailable), so a promotion
\* never takes the CONFIRMED count above slotsAvailable.
C2_PromotionNeedsFreeCapacity ==
  [][ \A id \in RegIds :
        promoteFromWaitlist(id) =>
          /\ ConfirmedCount(registrations) < event.slotsAvailable
          /\ ConfirmedCount(registrations') <= event.slotsAvailable ]_vars

\* C3: the status of an existing registration changes only from WAITLIST to
\* CONFIRMED and only in a promoteFromWaitlist step; register, withdraw, team
\* request, accept, decline and admin removal leave the status of every
\* other existing registration as it was.
C3_StatusChangesOnlyByPromotion ==
  [][ \A r \in registrations : \A n \in registrations' :
        (n.registrationId = r.registrationId /\ n.status # r.status) =>
          /\ r.status = "WAITLIST"
          /\ n.status = "CONFIRMED"
          /\ promoteFromWaitlist(r.registrationId) ]_vars

\* C3 witness: a single-player event with a free slot and a player still on
\* the waitlist (the slot was freed by a withdrawal or removal and nobody was
\* moved up).
C3_FreedSlotWaitlistKept ==
  /\ ~event.isTeamRegistration
  /\ ConfirmedCount(registrations) < event.slotsAvailable
  /\ \E r \in registrations : r.status = "WAITLIST"

\* C4: withAdminProtection renders the wrapped component only when loading is
\* false, the user is non-null and its role is "admin"; it shows the spinner
\* exactly while loading and nothing in the remaining cases; once loading is
\* false its effect has sent a signed-out visitor to /login and a signed-in
\* non-admin to /events.
C4_ComponentOnlyForAdmin ==
  page = "admin" =>
    /\ view = "component" <=>
         (~committed.loading /\ committed.user # None /\ isAdmin(committed))
    /\ view = "spinner" <=> committed.loading
    /\ view \in {"component", "spinner", "null"}
    /\ (~committed.loading /\ committed.user = None) =>
         nav["withAdminProtection"] = [to |-> "/login", user |-> None]
    /\ (~committed.loading /\ committed.user # None /\ ~isAdmin(committed)) =>
         nav["withAdminProtection"] = [to |-> "/events", user |-> committed.user]

\* C4 witness: the guard rendered the wrapped component for an admin.
C4_AdminSeesComponent ==
  /\ page = "admin"
  /\ view = "component"
  /\ isAdmin(committed)

\* C5: while an admin (users/{uid}.role = "admin") is signed in, no guard
\* (withAdminProtection, useRequireAdmin, the admin pages' effect) pushes
\* /events for that user, whatever the order of the auth callback,
\* setLoading(false), the first snapshot and React's commits.
C5_AdminNeverSentToEvents ==
  [][ \A g \in Guards : \A u \in Users :
        ( /\ authUser = Some(u) /\ authUser' = Some(u)
          /\ userDocs[u] = "admin" /\ userDocs'[u] = "admin"
          /\ nav'[g] # nav[g]
          /\ nav'[g].user = Some(u) )
        => nav'[g].to # "/events" ]_vars

\* C6: once the sign-in on /login?returnUrl=X has succeeded and every callback
\* and commit it caused has run, the last navigation is X (or /dashboard when
\* there is no returnUrl).
C6_LastNavigationIsReturnUrl ==
  ( /\ page = "login"
    /\ formPc = "done"
    /\ authEvents = <<>>
    /\ callbacks = {}
    /\ committed = AuthContext )
  => lastNav = getReturnUrl(returnUrl)

\* C7 witness: one attempt failed for an email without account, the other
\* for a wrong password.
C7_TwoCredentialFailures ==
  /\ Len(toasts) = 2
  /\ toasts[1].code = Some("auth/user-not-found")
  /\ toasts[2].code = Some("auth/wrong-password")

\* The failure codes of a sign-in with a wrong email or a wrong password.
CredentialCodes ==
  {Some("auth/user-not-found"), Some("auth/wrong-password"),
   Some("auth/invalid-credential"), Some("auth/invalid-login-credentials")}

\* C7: two failed sign-ins whose codes are among auth/user-not-found,
\* auth/wrong-password, auth/invalid-credential and
\* auth/invalid-login-credentials show the same toast, "Invalid email or
\* password."; a code the table does not list shows the generic fallback.
C7_SameMessageForCredentialFailures ==
  /\ \A i \in DOMAIN toasts : \A j \in DOMAIN toasts :
       (toasts[i].code \in CredentialCodes /\ toasts[j].code \in CredentialCodes) =>
         /\ toasts[i].title = toasts[j].title
         /\ toasts[i].description = toasts[j].description
         /\ toasts[i].description = "Invalid email or password."
  /\ \A i \in DOMAIN toasts :
       toasts[i].code \notin {Some(c) : c \in DOMAIN errorMessages} =>
         toasts[i].description = "An unexpected error occurred. Please try again."

\* C8: while user u stays signed in and users/{u} keeps its value d (d =
\* "missing" for a deleted document), userData eventually shows d (null for a
\* deleted document).
C8_UserDataFollowsDocument ==
  \A u \in Users : \A d \in DocValues :
    (authUser = Some(u) /\ userDocs[u] = d)
      ~> (userData = UserDataOf(u, d) \/ authUser # Some(u) \/ userDocs[u] # d)

\* Every record of the list has isPublic === true.
PublicOnly(list) == \A i \in DOMAIN list : list[i].isPublic = Some(TRUE)

C10_SuccessfulMigrationLeavesNothing ==
  [][ /\ \A failing \in FailingTurns :
           (migrateEventsToPublic(failing) /\ migration'.success) =>
             /\ getEventsMigrationCount(events') = 0
             /\ verifyEventsMigration(events') = [allMigrated |-> TRUE, remaining |-> 0]
             /\ Len(ToMigrate({e \in events' : needsPublic(e)})) = 0
      /\ \A failing \in FailingTurns :
           (migrateEventsToPublic_v2(failing) /\ migration'.success) =>
             /\ getEventsMigrationCount_v2(events') = 0
             /\ verifyEventsMigration_v2(events') = [allMigrated |-> TRUE, remaining |-> 0]
             /\ Len(ToMigrate({e \in events' : needsMigration_v2(e)})) = 0 ]_vars

\* "N min" strings and the N the claim gives them.
C11_MinuteStrings ==
  { <<Some(<<"9", "0", " ", "m", "i", "n">>), 90>>,
    <<Some(<<"0", " ", "m", "i", "n">>), 0>> }

\* Strings that name no duration: absent, empty, or without a unit.
C11_Unrecognised ==
  {None, Some(<<>>), Some(<<"9", "0">>), Some(<<"s", "o", "o", "n">>)}

StatusOrder(status) ==
  CASE status = "Upcoming" -> 0 [] status = "Active" -> 1 [] status = "Past" -> 2

\* The status last derived is the one the three cases of C11 give.
C11_StatusAsClaimed ==
  dynamicStatus # None =>
    LET status == The(dynamicStatus).status
        now == The(dynamicStatus).now
        D == parseDurationToMillis(shownEvent.duration) IN
    /\ \A m \in C11_MinuteStrings : shownEvent.duration = m[1] => D = m[2] * 60000
    /\ shownEvent.duration \in C11_Unrecognised => D = 60 * 60000
    /\ IF shownEvent.dateTime = None THEN status = "Upcoming"
       ELSE LET start == The(shownEvent.dateTime).seconds * 1000
                           + The(shownEvent.dateTime).nanoseconds \div 1000000 IN
            /\ status = "Upcoming" <=> now < start
            /\ status = "Active" <=> (start <= now /\ now <= start + D)
            /\ status = "Past" <=> now > start + D

\* C11: calculateEventStatus(dateTime, duration) evaluated at time now is
\* 'Upcoming' exactly when now < start, 'Active' exactly when
\* start <= now <= start + D and 'Past' exactly when now > start + D, where D
\* is N minutes for a string 'N min' and 60 minutes for an absent or
\* unrecognised string; a missing dateTime always yields 'Upcoming'.  As now
\* advances for a fixed event the status only moves forward through
\* Upcoming, Active, Past.
C11_StatusFollowsClock ==
  /\ []C11_StatusAsClaimed
  /\ [][ (dynamicStatus # None /\ dynamicStatus' # None) =>
          StatusOrder(The(dynamicStatus).status) <= StatusOrder(The(dynamicStatus').status)
      ]_vars

\* C11 witness: an event with a '90 min' duration rendered exactly at its
\* end, 90 minutes after a start that is not the epoch: still Active.
C11_ActiveAtTheEnd ==
  /\ dynamicStatus # None
  /\ shownEvent.duration = Some(<<"9", "0", " ", "m", "i", "n">>)
  /\ shownEvent.dateTime = Some([seconds |-> 7, nanoseconds |-> 999999999])
  /\ The(dynamicStatus).now = 7999 + 90 * 60000
  /\ The(dynamicStatus).status = "Active"

\* C12: for the event and every player, at most one registration document
\* with that playerId exists at any time, after any sequence or interleaving
\* of handleRegister, handleRegisterWithPartner, handleRegisterSolo and
\* handleAccept.
C12_OneRegistrationPerPlayer ==
  \A r \in registrations : \A o \in registrations :
    r.playerId = o.playerId => r.registrationId = o.registrationId

\* C13: when registrations for the event do not overlap in time,
\* handleRegister writes status CONFIRMED (waitlistPosition null, confirmedAt
\* set) exactly when the number of CONFIRMED registrations at that moment is
\* below slotsAvailable, and otherwise writes status WAITLIST with
\* waitlistPosition equal to the current number of WAITLIST registrations
\* plus one.
C13_RegisterFollowsCounts ==
  [][ \A p \in Players :
        handleRegister_commit(p) =>
          \E written \in registrations' \ registrations :
            /\ registrations' = registrations \cup {written}
            /\ written.playerId = p
            /\ IF ConfirmedCount(registrations) < event.slotsAvailable
                 THEN /\ written.status = "CONFIRMED"
                      /\ written.waitlistPosition = None
                      /\ written.confirmedAt # None
                 ELSE /\ written.status = "WAITLIST"
                      /\ written.waitlistPosition = Some(WaitlistCount(registrations) + 1)
    ]_vars

\* C13 witness: after three registrations for an event with one slot, the
\* first is CONFIRMED with confirmedAt set and the third is second on the
\* waitlist.
C13_SecondOnTheWaitlist ==
  /\ event.slotsAvailable = 1
  /\ \E r \in registrations :
       r.registrationId = 1 /\ r.status = "CONFIRMED" /\ r.confirmedAt # None
  /\ \E r \in registrations :
       r.registrationId = 3 /\ r.status = "WAITLIST" /\ r.waitlistPosition = Some(2)

\* C14: among the WAITLIST registrations of the event the waitlistPosition
\* values are pairwise distinct, after any sequence of registrations,
\* withdrawals, admin removals and promotions, and under concurrent waitlist
\* registrations.
C14_WaitlistPositionsDistinct ==
  \A r \in registrations : \A o \in registrations :
    ( /\ r.status = "WAITLIST" /\ o.status = "WAITLIST"
      /\ r.waitlistPosition # None
      /\ r.waitlistPosition = o.waitlistPosition ) => r.registrationId = o.registrationId

\* C15: whenever handleAccept reports success, a team document for that
\* teamId exists with player1Confirmed and player2Confirmed both true, both
\* players hold a registration for the event with that teamId and
\* partnerStatus CONFIRMED, and the initiator has a partner_accepted
\* notification.
C15_AcceptedTeamIsComplete ==
  [][ \A p \in Players :
        handleAccept_notify(p) =>
          LET team == local[p].teamId
              initiator == The(local[p].partner) IN
          /\ \E t \in teams' :
               Some(t.teamId) = team /\ t.player1Confirmed /\ t.player2Confirmed
          /\ \A member \in {p, initiator} :
               \E r \in registrations' :
                 r.playerId = member /\ r.teamId = team /\ r.partnerStatus = "CONFIRMED"
          /\ NewNotification(initiator, "partner_accepted", p) \in notifications'
    ]_vars

\* C16: in a team event, once an invitation has been accepted the two
\* members' registrations carry the same status: handleAccept never leaves
\* the partner's registration CONFIRMED while the initiator's registration
\* of the same team is on the WAITLIST.
C16_PartnerSharesInitiatorStatus ==
  [][ \A p \in Players :
        handleAccept_add(p) =>
          \A written \in registrations' \ registrations :
            \A primary \in PrimaryOfTeam(registrations', written.teamId) :
              written.status = primary.status
    ]_vars

\* C17: after a member of a team withdraws through
\* TeamRegisterDialog.handleWithdraw, the remaining member's registration no
\* longer has the deleted team's teamId nor partnerStatus CONFIRMED or
\* PENDING, so it is listed among the single players; this holds whichever
\* of the two members withdraws.
C17_RemainingMemberIsSingle ==
  [][ \A p \in Players :
        (handleWithdrawTeam_delete(p) /\ The(local[p].reg).teamId # None
           /\ The(local[p].reg).player2Id # None) =>
          LET withdrawn == The(local[p].reg)
              remaining == The(withdrawn.player2Id) IN
          \A r \in registrations' :
            r.playerId = remaining =>
              /\ r.teamId # withdrawn.teamId
              /\ r.player2Id = Some(p) => r.partnerStatus \in {"NONE", "DENIED"}
    ]_vars

\* C18: once the handlers have finished, every registration whose teamId is
\* non-null refers to an existing team document in which the registration's
\* playerId is player1Id or player2Id, and every team document is referenced
\* by the primary registration of its player1.
C18_TeamReferencesIntact ==
  Quiet =>
    /\ \A r \in registrations :
         r.teamId # None =>
           \E t \in teams :
             Some(t.teamId) = r.teamId /\ r.playerId \in {t.player1Id, t.player2Id}
    /\ \A t \in teams :
         \E r \in registrations :
           r.isPrimary /\ r.playerId = t.player1Id /\ r.teamId = Some(t.teamId)

\* C19: a partner invitation is all-or-nothing: after
\* handleRegisterWithPartner or sendTeamRequest finishes, whether it
\* succeeded or failed part-way, either the team document, the initiator's
\* registration linked to it (partnerStatus PENDING, player2Id and teamId
\* set) and the partner_invite notification for the invited player all
\* exist, or neither the team nor the link was written.
C19_InvitationAllOrNothing ==
  [][ \A p \in Players :
        LET finished == \/ handleRegisterWithPartner_commit(p)
                        \/ sendTeamRequest_update(p) /\ pc'[p] = "idle"
                        \/ sendTeamRequest_notify(p)
            team == IF pc[p] = "hp_commit" THEN Some(newTeamId) ELSE local[p].teamId
            invited == local[p].partner
            hasTeam == \E t \in teams' : Some(t.teamId) = team
            hasLink == \E r \in registrations' :
                         /\ r.playerId = p /\ r.teamId = team
                         /\ r.partnerStatus = "PENDING" /\ r.player2Id = invited
            hasInvite == NewNotification(The(invited), "partner_invite", p) \in notifications' IN
        finished => \/ hasTeam /\ hasLink /\ hasInvite
                    \/ ~hasTeam /\ ~hasLink
    ]_vars

\* C20: after handleDecline succeeds, the initiator's primary registration
\* has partnerStatus DENIED with player2Id and teamId null, the initiator has
\* a partner_denied notification, the decliner holds no registration of the
\* declined team, and no primary registration refers to the declined team
\* (so it is shown neither as confirmed nor as pending).
C20_DeclineResetsInitiator ==
  [][ \A p \in Players :
        handleDecline_notify(p) =>
          LET team == local[p].teamId
              initiator == The(local[p].partner) IN
          /\ \E r \in registrations' :
               /\ r.playerId = initiator /\ r.isPrimary
               /\ r.partnerStatus = "DENIED" /\ r.player2Id = None /\ r.teamId = None
          /\ NewNotification(initiator, "partner_denied", p) \in notifications'
          /\ ~\E r \in registrations' : r.playerId = p /\ r.teamId = team
          /\ PrimaryOfTeam(registrations', team) = {}
    ]_vars

\* C21: no registration is ever created for an event whose start time has
\* passed: whatever the stored status says, no step of handleRegister,
\* handleRegisterWithPartner or handleRegisterSolo adds a registration
\* document while event.dateTime is earlier than the current time.
C21_NoRegistrationForPastEvent ==
  [][ (\E n \in registrations' :
         \A r \in registrations : r.registrationId # n.registrationId) =>
        ~(event.dateTime # None /\ toMillis(The(event.dateTime)) < clock) ]_vars

\* C22: when handleDelete ('Cancel Event') has succeeded the event document
\* is the same document with status 'Cancelled', and the players are
\* notified: every player who holds a registration for the cancelled event
\* eventually has an event_cancelled notification.
C22_CancelKeepsEventAndNotifies ==
  /\ [][ (editPage.saving /\ editPage'.toast = Some("Event cancelled")) =>
          event' = [event EXCEPT !.status = "Cancelled"] ]_vars
  /\ \A p \in Players :
       (event.status = "Cancelled" /\ \E r \in registrations : r.playerId = p)
         ~> (\E n \in notifications : n.userId = p /\ n.type = "event_cancelled")

\* C23: in the MigrationResult that migrateEventsToPublic (of either file)
\* returns, totalProcessed = successCount + failedCount, and successCount is
\* the number of event documents whose update the run committed to the
\* store; also when a batch commit fails and when the last event is skipped
\* for its invalid dateTime string.
C23_ResultCountsCommittedUpdates ==
  [][ \A failing \in FailingTurns :
        ((migrateEventsToPublic(failing) \/ migrateEventsToPublic_v2(failing))
           /\ migration'.success) =>
          /\ migration'.totalProcessed = migration'.successCount + migration'.failedCount
          /\ migration'.successCount = Cardinality({e \in events : e \notin events'}) ]_vars

\* C24: for every non-empty return path u, getReturnUrl applied to the query
\* parameters of buildLoginUrl(u) is u; buildLoginUrl without an argument is
\* "/login"; getReturnUrl is "/dashboard" when the returnUrl parameter is
\* absent or empty.
C24_ReturnUrlRoundTrip ==
  /\ (redirect.by = "buildLoginUrl" /\ redirect.returnUrl = None) =>
       redirect.loginUrl = Some(<<"/", "l", "o", "g", "i", "n">>)
  /\ (redirect.by = "buildLoginUrl" /\ redirect.returnUrl \notin {None, Some(<<>>)}
        /\ redirect.back # None) =>
       redirect.back = redirect.returnUrl
  /\ (redirect.back # None
        /\ redirect.loginUrl \in
             {Some(<<"/", "l", "o", "g", "i", "n">>),
              Some(<<"/", "l", "o", "g", "i", "n", "?", "a", "=", "a">>),
              Some(<<"/", "l", "o", "g", "i", "n", "?",
                     "r", "e", "t", "u", "r", "n", "U", "r", "l", "=">>)}) =>
       redirect.back = Some(<<"/", "d", "a", "s", "h", "b", "o", "a", "r", "d">>)

\* C24 witness: the return path "%2F", which is not put into the login URL as
\* it is, came back from the login form as it was.
C24_ReservedCharactersComeBack ==
  /\ redirect.by = "buildLoginUrl"
  /\ redirect.returnUrl = Some(<<"%", "2", "F">>)
  /\ redirect.loginUrl # Some(<<"/", "l", "o", "g", "i", "n", "?",
                                "r", "e", "t", "u", "r", "n", "U", "r", "l", "=", "%", "2", "F">>)
  /\ redirect.back = Some(<<"%", "2", "F">>)

====
